---------------------------- MODULE Spec2Model ----------------------------
(***************************************************************************)
(* A model of the segmentation and equation-reconstruction pipeline of     *)
(* Server/digit_reco_server/python_utils/segment.py and of the solver      *)
(* adapter sympySolver.py.                                                 *)
(*                                                                         *)
(* Conventions.                                                            *)
(*  - Python lists are TLA+ sequences; Python indices are kept 0-based in  *)
(*    the variables (i, the entries of reads) and At(list, k) reads        *)
(*    list[k].                                                             *)
(*  - A Python string that is built character by character (final_eq) is  *)
(*    a sequence of one-character strings; Chars(label) spells a label.    *)
(*  - The specifications share the variables:                              *)
(*      SpecRecon   lines 143-201 of segment.py, on every short token      *)
(*                  stream over a sample of the vocabulary,                *)
(*      SpecRun     lines 143-208 and solveIt, on longer streams over a    *)
(*                  few tokens,                                            *)
(*      SpecLayout  lines 77-78, 89-98 and 107-141 (the layout roles),     *)
(*      SpecDfs     dfs, lines 210-241 (SpecDfsFair: one call, with the    *)
(*                  loop of dfs going on as long as it can),               *)
(*      SpecScan    the column-major scan, lines 84-141, with dfs run to   *)
(*                  its end inside the step that calls it (SpecScanWide:   *)
(*                  the same on wider rasters with little ink),            *)
(*      SpecCrop    crop_img as img_segment calls it, lines 19-25 and 34,  *)
(*      SpecBinarize  the binarization, lines 44-67,                       *)
(*      SpecSolveSystem  solveSystem, sympySolver.py:13-21,                *)
(*      SpecPair    two runs of lines 71-141 interleaved in one process.   *)
(*    The variables a specification does not use keep their initial value. *)
(***************************************************************************)
EXTENDS Integers, Sequences, FiniteSets, TLC

VARIABLES
    pc,              \* position of the run
    segLabels,       \* predict_image's answer for each segmented image
    isPowerStart,    \* segment.py:76
    predicted_list,  \* segment.py:143
    isPowerStart2,   \* segment.py:144
    final_eq,        \* segment.py:159, a sequence of characters
    i,               \* segment.py:160, the index of the while loop (0-based)
    reads,           \* history: the indices read from predicted_list / isPowerStart2
    emitted,         \* history: where each token of predicted_list went in final_eq
    raised,          \* the exception that left the run, or "none"
    solvesetResult,  \* what the external solveset call did for final_eq
    solution,        \* result["solution"], segment.py:204
    stdout,          \* what was written to standard output, in order
    yminCrop,        \* segment.py:14
    ymaxCrop,        \* segment.py:15
    write_flag,      \* segment.py:80
    prevCenter2,     \* twice prevCenter (segment.py:77): (a+b)/2 is a true division
    prevBottom,      \* segment.py:78
    boxes,           \* history: the column box of every glyph emitted so far
    gray_image,      \* segment.py:36, the binarized raster
    output_image,    \* segment.py:82
    stack,           \* segment.py:216
    xmin, xmax, ymin, ymax,   \* segment.py:13
    dfsEntry,        \* history: the start pixel and the two images when the
                     \* current dfs call started
    dfsCalls,        \* history: one record per dfs call that has returned
    dfsReturn,       \* the value the last dfs call returned
    j,               \* segment.py:84, the column index of the scan
    xminCrop,        \* segment.py:14
    xmaxCrop,        \* segment.py:15
    glyphs,          \* history: one record per glyph image written (line 128)
    scanIn,          \* history: the raster when the scan started
    cellReads,       \* history: the cells <<row, column>> line 89 has read
    extracted,       \* history: one record per dfs call of the scan
    im,              \* segment.py:32 / 44, the image being prepared
    imIn,            \* history: im before the preparation step
    solveSystem,     \* sympySolver.py:13, the activation of solveSystem: its
                     \* argument, its locals and how it ended
    runs             \* the locals of the img_segment activations that run in
                     \* one process

reconVars  == <<segLabels, predicted_list, isPowerStart2, final_eq, i, reads,
                emitted, raised, solvesetResult, solution, stdout>>
layoutVars == <<yminCrop, ymaxCrop, write_flag, prevCenter2, prevBottom, boxes>>
dfsVars    == <<gray_image, output_image, stack, xmin, xmax, ymin, ymax,
                dfsEntry, dfsCalls, dfsReturn>>
scanVars   == <<j, xminCrop, xmaxCrop, glyphs, scanIn, cellReads, extracted,
                im, imIn>>
callVars   == <<solveSystem, runs>>
vars       == <<pc, isPowerStart, reconVars, layoutVars, dfsVars, scanVars,
                callVars>>

---------------------------------------------------------------------------
(* Bounds of the model.                                                    *)

\* the longest token stream SpecRecon draws over the whole vocabulary sample
MaxTokens == 3
\* the longest token stream SpecRun draws over its tokens
MaxScenario == 4
\* the largest column index of a glyph box in SpecLayout
MaxColumn == 3
\* the number of glyphs SpecLayout emits
MaxGlyphs == 3
\* the rasters of SpecDfs have MaxRows rows and MaxCols columns
MaxRows == 2
MaxCols == 2
\* the rasters of SpecScan have ScanRows rows and ScanCols columns
ScanRows == 3
ScanCols == 3
\* the images SpecCrop crops have up to MaxHeight rows and MaxWidth columns
MaxHeight == 12
MaxWidth == 5
\* the grayscale images of SpecBinarize have BinRows rows and BinCols columns
BinRows == 2
BinCols == 2
\* the rasters of SpecScanWide have WideRows rows, WideCols columns and up to
\* WideInk ink pixels
WideRows == 3
WideCols == 5
WideInk == 3
\* the longest list of equations SpecSolveSystem passes to solveSystem
MaxEquations == 3
\* the rasters of the two runs of SpecPair have PairRows rows and PairCols
\* columns
PairRows == 2
PairCols == 2

---------------------------------------------------------------------------
(* Labels, characters and Python's string comparison.                      *)

\* predict.py:86, the classifier's vocabulary in index order
L == <<"(", ")", "+", "-", "0", "1", "2", "3", "4", "5", "6", "7", "8", "9",
       "=", "a", "alpha", "b", "beta", "c", "e", "i", "j", "k", "pi", "x",
       "y", "z">>

Labels == {L[k] : k \in 1..Len(L)}

\* the spelling of a label, character by character
Chars(s) ==
    CASE s = "alpha" -> <<"a", "l", "p", "h", "a">>
      [] s = "beta"  -> <<"b", "e", "t", "a">>
      [] s = "pi"    -> <<"p", "i">>
      [] OTHER       -> <<s>>

\* ord() of the characters that occur in labels and in final_eq
Ord(c) ==
    CASE c = "(" -> 40  [] c = ")" -> 41  [] c = "*" -> 42  [] c = "+" -> 43
      [] c = "-" -> 45  [] c = "0" -> 48  [] c = "1" -> 49  [] c = "2" -> 50
      [] c = "3" -> 51  [] c = "4" -> 52  [] c = "5" -> 53  [] c = "6" -> 54
      [] c = "7" -> 55  [] c = "8" -> 56  [] c = "9" -> 57  [] c = "=" -> 61
      [] c = "E" -> 69  [] c = "I" -> 73  [] c = "a" -> 97  [] c = "b" -> 98
      [] c = "c" -> 99  [] c = "e" -> 101 [] c = "h" -> 104 [] c = "i" -> 105
      [] c = "j" -> 106 [] c = "k" -> 107 [] c = "l" -> 108 [] c = "p" -> 112
      [] c = "t" -> 116 [] c = "x" -> 120 [] c = "y" -> 121 [] c = "z" -> 122

\* Python's s <= t on strings: lexicographic on the code points
RECURSIVE SeqLeq(_, _)
SeqLeq(s, t) ==
    IF s = <<>> THEN TRUE
    ELSE IF t = <<>> THEN FALSE
    ELSE IF Ord(Head(s)) # Ord(Head(t)) THEN Ord(Head(s)) < Ord(Head(t))
    ELSE SeqLeq(Tail(s), Tail(t))

StrLeq(s, t) == SeqLeq(Chars(s), Chars(t))

\* segment.py:163 (and 167, 180, 196): val >= '0' and val <= '9'
IsDigit(val) == StrLeq("0", val) /\ StrLeq(val, "9")

\* segment.py:173
IsStructural(val) == val = "(" \/ val = ")" \/ val = "+" \/ val = "-"

\* segment.py:183
IsConstant(val) == val = "pi" \/ val = "e" \/ val = "i"

\* str.upper() on the two labels it is applied to (segment.py:185)
Upper(val) == CASE val = "e" -> "E" [] val = "i" -> "I" [] OTHER -> val

\* list[k] for a 0-based k
At(list, k) == list[k + 1]

\* s[-1]
Last(s) == s[Len(s)]

\* s[:-1]
DropLast(s) == SubSeq(s, 1, Len(s) - 1)

---------------------------------------------------------------------------
(* The reconstruction loop, segment.py:159-201, as a function of the two    *)
(* lists.  A machine state m holds the locals the loop changes:             *)
(*   eq     final_eq,                                                       *)
(*   i      the index,                                                      *)
(*   err    TRUE once a read raised IndexError,                             *)
(* and two histories:                                                       *)
(*   reads  the indices read so far,                                        *)
(*   at     for every token appended to final_eq, the position of its first *)
(*          character in final_eq (from 1) and the place that appended it.  *)

\* Python accepts list[k] for -len <= k < len and raises IndexError otherwise
IndexOK(list, k) == -Len(list) <= k /\ k < Len(list)

\* the read list[k]: records k, and raises when k is out of range
Read(list, m, k) ==
    [m EXCEPT !.reads = @ \cup {k}, !.err = @ \/ ~IndexOK(list, k)]

\* final_eq += chars, for the token of index k
Emit(m, k, chars, by) ==
    [m EXCEPT !.eq = @ \o chars,
              !.at = @ @@ (k :> [pos |-> Len(m.eq) + 1, by |-> by])]

\* segment.py:167-170, entered with val = predicted_list[i] already read
RECURSIVE DigitLoop(_, _)
DigitLoop(pl, m) ==
    IF m.i < Len(pl) /\ IsDigit(At(pl, m.i))
    THEN LET m1 == [Emit(m, m.i, Chars(At(pl, m.i)), "digit") EXCEPT !.i = @ + 1]
             m2 == Read(pl, m1, m1.i)
         IN  IF m2.err THEN m2 ELSE DigitLoop(pl, m2)
    ELSE m

\* a numeral that is closed by nothing
AfterNumeralNothing == <<>>

\* segment.py:171, what closes a numeral
AfterNumeral == <<"*">>

\* segment.py:163-172, the digit branch
DigitBranch(pl, m) ==
    LET m1 == [Emit(m, m.i, Chars(At(pl, m.i)), "digit") EXCEPT !.i = @ + 1]
        m2 == Read(pl, m1, m1.i)
    IN  IF m2.err THEN m2
        ELSE LET m3 == DigitLoop(pl, m2)
             IN  IF m3.err THEN m3
                 ELSE [m3 EXCEPT !.eq = @ \o AfterNumeral, !.i = @ - 1]

\* no repair step
StripNothing(eq) == eq

\* segment.py:174-175, the repair step: a trailing '*' is stripped
Strip(eq) == IF Last(eq) = "*" THEN DropLast(eq) ELSE eq

\* the test of line 176 without its two sign cases
StarBeforeAfterSign(val, eq) ==
    val = "(" /\ Len(eq) # 1 /\ Last(eq) # "("

\* segment.py:176, whether an implicit '*' goes before the token
StarBefore(val, eq) ==
    val = "(" /\ Len(eq) # 1
    /\ ~(Last(eq) = "(" \/ Last(eq) = "+" \/ Last(eq) = "-")

\* one '*' after a ')' whatever the next token is
StarsAfterCloseOne(nxt) == <<"*">>

\* segment.py:180-182, what follows a ')' whose next token nxt is no closer or sign
StarsAfterClose(nxt) ==
    IF IsDigit(nxt) THEN <<"*", "*">> ELSE <<"*">>

\* segment.py:173-182, the structural branch
StructBranch(pl, m) ==
    LET val == At(pl, m.i)
        e1  == Strip(m.eq)
        e2  == IF StarBefore(val, e1) THEN Append(e1, "*") ELSE e1
        m1  == Emit([m EXCEPT !.eq = e2], m.i, Chars(val), "struct")
    IN  IF val # ")" \/ m.i = Len(pl) - 1 THEN m1
        ELSE LET m2  == Read(pl, m1, m.i + 1)
                 nxt == At(pl, m.i + 1)
             IN  IF m2.err THEN m2
                 ELSE IF nxt = ")" \/ nxt = "+" \/ nxt = "-" THEN m2
                 ELSE [m2 EXCEPT !.eq = @ \o StarsAfterClose(nxt)]

\* segment.py:183-188, the constant branch
ConstBranch(pl, m) ==
    LET val == At(pl, m.i)
        m1  == Emit(m, m.i, Chars(IF val = "e" \/ val = "i"
                                  THEN Upper(val) ELSE val), "const")
    IN  [m1 EXCEPT !.eq = Append(@, "*")]

\* segment.py:196-198, the exponent run
RECURSIVE PowerLoop(_, _, _)
PowerLoop(pl, ps2, m) ==
    LET m1 == Read(ps2, m, m.i)
    IN  IF m1.err THEN m1
        ELSE IF At(ps2, m.i) # 0 THEN m1
        ELSE LET m2 == Read(pl, m1, m.i)
             IN  IF m2.err THEN m2
                 ELSE IF ~IsDigit(At(pl, m.i)) THEN m2
                 ELSE PowerLoop(pl, ps2,
                          [Emit(m2, m.i, Chars(At(pl, m.i)), "power")
                               EXCEPT !.i = @ + 1])

\* the test of line 192 on the other tag
StartsPowerOnBelow(ps2, k) == At(ps2, k) = -1

\* segment.py:192, whether the token of index k starts an exponent
StartsPower(ps2, k) == At(ps2, k) = 1

\* segment.py:189-200, the general-symbol branch
SymbolBranch(pl, ps2, m) ==
    LET val == At(pl, m.i)
        m1  == Emit([m EXCEPT !.eq = Append(@, "(")], m.i, Chars(val), "symbol")
        m2  == Read(ps2, m1, m.i + 1)
    IN  IF m2.err THEN m2
        ELSE IF StartsPower(ps2, m.i + 1)
        THEN LET m3 == Read(pl, [m2 EXCEPT !.eq = @ \o <<"*", "*">>], m.i + 1)
             IN  IF m3.err THEN m3
                 ELSE LET m4 == [Emit(m3, m.i + 1, Chars(At(pl, m.i + 1)), "power")
                                     EXCEPT !.i = m.i + 2]
                          m5 == PowerLoop(pl, ps2, m4)
                      IN  IF m5.err THEN m5
                          ELSE [m5 EXCEPT !.i = @ - 1,
                                          !.eq = @ \o <<")", "*">>]
        ELSE [m2 EXCEPT !.eq = @ \o <<")", "*">>]

\* segment.py:162-201, one iteration of the while loop
LoopBody(pl, ps2, m) ==
    LET m0  == Read(pl, m, m.i)
        val == At(pl, m.i)
        m1  == IF IsDigit(val) THEN DigitBranch(pl, m0)
               ELSE IF IsStructural(val) THEN StructBranch(pl, m0)
               ELSE IF IsConstant(val) THEN ConstBranch(pl, m0)
               ELSE SymbolBranch(pl, ps2, m0)
    IN  IF m1.err THEN m1 ELSE [m1 EXCEPT !.i = @ + 1]

\* segment.py:161-201, the while loop from the loop state m, of at most n
\* iterations
RECURSIVE LoopIterate(_, _, _, _)
LoopIterate(pl, ps2, m, n) ==
    IF n = 0 \/ m.err \/ m.i >= Len(pl) THEN m
    ELSE CHOOSE r \in {LoopIterate(pl, ps2, m1, n - 1) :
                           m1 \in {LoopBody(pl, ps2, m)}} : TRUE

---------------------------------------------------------------------------
(* The solver adapter, sympySolver.py:5-11.  solveset is the bundled        *)
(* algebra engine: for a given string it either returns a set, whose str()  *)
(* is the answer, or raises.                                                *)

\* sympySolver.py:6
Sentinel == "Error occured while Solving Equation"

\* what the call str(solveset(equation)) of sympySolver.py:8 can do
SolvesetOutcomes ==
    {[kind |-> "return", value |-> v] : v \in {"EmptySet()", "{5}"}}
    \cup {[kind |-> "raise", value |-> e] : e \in {"ValueError", "KeyboardInterrupt"}}

\* "except Exception:", which lets KeyboardInterrupt through
CatchesException(exc) == exc # "KeyboardInterrupt"

\* sympySolver.py:10, a bare except: it catches every exception
Catches(exc) == TRUE

\* sympySolver.py:5-11: the value solveIt returns and the exception that
\* leaves it ("none" when it returns)
SolveIt(outcome) ==
    IF outcome.kind = "return"
    THEN [value |-> outcome.value, raised |-> "none"]
    ELSE IF Catches(outcome.value)
         THEN [value |-> Sentinel, raised |-> "none"]
         ELSE [value |-> "none", raised |-> outcome.value]

---------------------------------------------------------------------------
(* The inputs of the reconstruction: one (label, role) token per glyph.     *)

\* the layout roles, segment.py:133-137
Roles == {-1, 0, 1}

\* the labels SpecRecon draws its tokens from: every class of the dispatch
\* of segment.py:163-189 and '='
ReconLabels == {"(", ")", "2", "5", "=", "e", "x"}

ReconTokens == ReconLabels \X Roles

\* the tokens SpecRun draws its streams from
RunTokens == {<<"2", 0>>, <<"3", 0>>, <<"x", 0>>, <<"+", 0>>, <<"2", 1>>, <<"=", 0>>}

Streams(tokens, n) == UNION {[1..k -> tokens] : k \in 0..n}

\* the variables of the layout and dfs stages while they are not running
LayoutIdle ==
    /\ yminCrop = 100000 /\ ymaxCrop = 0 /\ write_flag = FALSE
    /\ prevCenter2 = 0 /\ prevBottom = 0 /\ boxes = <<>>

DfsIdle ==
    /\ gray_image = <<>> /\ output_image = <<>> /\ stack = <<>>
    /\ xmin = 0 /\ xmax = 0 /\ ymin = 0 /\ ymax = 0
    /\ dfsEntry = <<>> /\ dfsCalls = <<>> /\ dfsReturn = 0

ScanIdle ==
    /\ j = 0 /\ xminCrop = 100000 /\ xmaxCrop = 0
    /\ glyphs = <<>> /\ scanIn = <<>> /\ cellReads = {} /\ extracted = <<>>
    /\ im = <<>> /\ imIn = <<>>

\* no solveSystem call and no concurrent activations
CallsIdle == solveSystem = <<>> /\ runs = <<>>

\* the state at segment.py:145, for the token stream ts
ReconStart(ts) ==
    /\ pc = "classify"
    /\ segLabels = [k \in 1..Len(ts) |-> ts[k][1]]
    /\ isPowerStart = [k \in 1..Len(ts) |-> ts[k][2]]
    /\ predicted_list = <<"(">>
    /\ isPowerStart2 = <<0>>
    /\ final_eq = <<>>
    /\ i = 0
    /\ reads = {}
    /\ emitted = <<>>
    /\ raised = "none"
    /\ solvesetResult = [kind |-> "none", value |-> "none"]
    /\ solution = "none"
    /\ stdout = <<>>
    /\ LayoutIdle
    /\ DfsIdle
    /\ ScanIdle
    /\ CallsIdle

InitRecon == \E ts \in Streams(ReconTokens, MaxTokens) : ReconStart(ts)

InitRun == \E ts \in Streams(RunTokens, MaxScenario) : ReconStart(ts)

\* '=' rewritten with an opening parenthesis in place of the closing one
RewriteAsOpen(label) ==
    IF label = "=" THEN <<"(", "-", "(">> ELSE <<label>>

\* segment.py:146-155, what one glyph adds to predicted_list
Rewrite(label) ==
    IF label = "=" THEN <<")", "-", "(">> ELSE <<label>>

\* a rewriting of '=' that appends one role for its three tokens
RewriteRoleOnce(label, role) ==
    IF label = "=" THEN <<0>> ELSE <<role>>

\* segment.py:148-155, what one glyph adds to isPowerStart2
RewriteRole(label, role) ==
    IF label = "=" THEN <<0, 0, 0>> ELSE <<role>>

\* segment.py:145-155, predicted_list after the for loop over the glyphs
RECURSIVE Rewritten(_)
Rewritten(labels) ==
    IF labels = <<>> THEN <<>>
    ELSE Rewrite(Head(labels)) \o Rewritten(Tail(labels))

\* segment.py:145-155, isPowerStart2 after the for loop over the glyphs
RECURSIVE RewrittenRoles(_, _)
RewrittenRoles(labels, roles) ==
    IF labels = <<>> THEN <<>>
    ELSE RewriteRole(Head(labels), Head(roles))
             \o RewrittenRoles(Tail(labels), Tail(roles))

\* a list that is not closed
CloserMissing == <<>>

\* segment.py:156, the closing token of the list
Closer == <<")">>

\* segment.py:145-160: the for loop over the glyphs, the closing token and
\* the start of the while loop
BuildLists ==
    /\ pc = "classify"
    /\ predicted_list' = (predicted_list \o Rewritten(segLabels)) \o Closer
    /\ isPowerStart2' = Append(isPowerStart2
                                 \o RewrittenRoles(segLabels, isPowerStart), 0)
    /\ final_eq' = <<"(">>
    /\ i' = 1
    /\ pc' = "loop"
    /\ UNCHANGED <<segLabels, isPowerStart, reads, emitted, raised,
                   solvesetResult, solution, stdout, layoutVars, dfsVars,
                   scanVars, callVars>>

\* segment.py:161-201, one iteration of the while loop; an IndexError leaves
\* the run
LoopIter ==
    /\ pc = "loop"
    /\ i < Len(predicted_list)
    /\ \E m \in {LoopBody(predicted_list, isPowerStart2,
                           [eq |-> final_eq, i |-> i, reads |-> reads,
                            at |-> emitted, err |-> FALSE])} :
           /\ final_eq' = m.eq
           /\ i' = m.i
           /\ reads' = m.reads
           /\ emitted' = m.at
           /\ pc' = IF m.err THEN "raised" ELSE "loop"
           /\ raised' = IF m.err THEN "IndexError" ELSE raised
    /\ UNCHANGED <<segLabels, isPowerStart, predicted_list, isPowerStart2,
                   solvesetResult, solution, stdout, layoutVars, dfsVars,
                   scanVars, callVars>>

\* segment.py:143-201 as a function: final_eq for the labels and the roles
\* of the glyphs when the while loop ends or raises (every iteration
\* advances i, so the loop has at most Len(predicted_list) iterations)
Expression(labels, roles) ==
    LoopIterate((<<"(">> \o Rewritten(labels)) \o Closer,
                Append(<<0>> \o RewrittenRoles(labels, roles), 0),
                [eq |-> <<"(">>, i |-> 1, reads |-> {}, at |-> <<>>,
                 err |-> FALSE],
                Len(Rewritten(labels)) + 2).eq

\* the while loop of segment.py:161 has ended
LoopDone == pc = "loop" /\ i >= Len(predicted_list)

\* segment.py:203-205, result["solution"] = solveIt(final_eq)
Solve ==
    /\ LoopDone
    /\ \E o \in SolvesetOutcomes :
          /\ solvesetResult' = o
          /\ solution' = SolveIt(o).value
          /\ raised' = SolveIt(o).raised
          /\ pc' = IF SolveIt(o).raised = "none" THEN "print" ELSE "raised"
    /\ UNCHANGED <<segLabels, isPowerStart, predicted_list, isPowerStart2,
                   final_eq, i, reads, emitted, stdout, layoutVars, dfsVars,
                   scanVars, callVars>>

\* segment.py:206, print(json.dumps(result))
PrintResult ==
    /\ pc = "print"
    /\ stdout' = Append(stdout, <<"print", "result", final_eq, solution>>)
    /\ pc' = "printlist"
    /\ UNCHANGED <<segLabels, isPowerStart, predicted_list, isPowerStart2,
                   final_eq, i, reads, emitted, raised, solvesetResult,
                   solution, layoutVars, dfsVars,
                   scanVars, callVars>>

\* segment.py:207, print(predicted_list)
PrintList ==
    /\ pc = "printlist"
    /\ stdout' = Append(stdout, <<"print", "predicted_list", predicted_list>>)
    /\ pc' = "flush"
    /\ UNCHANGED <<segLabels, isPowerStart, predicted_list, isPowerStart2,
                   final_eq, i, reads, emitted, raised, solvesetResult,
                   solution, layoutVars, dfsVars,
                   scanVars, callVars>>

\* segment.py:208, sys.stdout.flush()
Flush ==
    /\ pc = "flush"
    /\ stdout' = Append(stdout, <<"flush">>)
    /\ pc' = "done"
    /\ UNCHANGED <<segLabels, isPowerStart, predicted_list, isPowerStart2,
                   final_eq, i, reads, emitted, raised, solvesetResult,
                   solution, layoutVars, dfsVars,
                   scanVars, callVars>>

NextRecon == BuildLists \/ LoopIter

NextRun == BuildLists \/ LoopIter \/ Solve \/ PrintResult \/ PrintList
           \/ Flush

\* the reconstruction of every short token stream over ReconTokens
SpecRecon == InitRecon /\ [][NextRecon]_vars

\* the whole of segment.py:143-208 for the streams over RunTokens
SpecRun == InitRun /\ [][NextRun]_vars

---------------------------------------------------------------------------
(* The layout roles, segment.py:77-78, 94-98 and 131-141.  dfs is not run   *)
(* here: the column extent lo..hi of the component it extracted (the        *)
(* globals ymin and ymax when it returns) is an input of Accumulate.        *)

\* prevCenter started at the sentinel of the crop minimums (segment.py:14)
PrevStartAtSentinel == [center2 |-> 2 * 100000, bottom |-> 0]

\* segment.py:77-78, prevCenter (doubled) and prevBottom before the first glyph
PrevStart == [center2 |-> 0, bottom |-> 0]

\* the column boxes lo..hi a component can have
ColumnBoxes == {b \in (0..MaxColumn) \X (0..MaxColumn) : b[1] <= b[2]}

Min(a, b) == IF a <= b THEN a ELSE b

Max(a, b) == IF a >= b THEN a ELSE b

\* the first comparison of line 132 turned round
ClassifyRoleTurned(lo, hi, center2, bottom) ==
    IF 2 * hi > center2 THEN 1
    ELSE IF lo + hi > 2 * bottom THEN -1
    ELSE 0

\* segment.py:131-137: the role of the glyph whose accumulated column box is
\* lo..hi; center2 is twice prevCenter, so that currCenter = (lo + hi)/2 and
\* the comparisons are those of the true division
ClassifyRole(lo, hi, center2, bottom) ==
    IF 2 * hi < center2 THEN 1
    ELSE IF lo + hi > 2 * bottom THEN -1
    ELSE 0

ReconIdle ==
    /\ segLabels = <<>> /\ predicted_list = <<>> /\ isPowerStart2 = <<>>
    /\ final_eq = <<>> /\ i = 0 /\ reads = {} /\ emitted = <<>>
    /\ raised = "none" /\ solvesetResult = [kind |-> "none", value |-> "none"]
    /\ solution = "none" /\ stdout = <<>>

\* the state at segment.py:84
InitLayout ==
    /\ pc = "scan"
    /\ isPowerStart = <<>>
    /\ yminCrop = 100000 /\ ymaxCrop = 0
    /\ write_flag = FALSE
    /\ prevCenter2 = PrevStart.center2
    /\ prevBottom = PrevStart.bottom
    /\ boxes = <<>>
    /\ ReconIdle
    /\ DfsIdle
    /\ ScanIdle
    /\ CallsIdle

\* segment.py:89-98: an ink pixel was found and dfs extracted a component
\* whose columns are lo..hi
Accumulate(lo, hi) ==
    /\ pc = "scan"
    /\ Len(boxes) < MaxGlyphs
    /\ write_flag' = TRUE
    /\ yminCrop' = Min(yminCrop, lo)
    /\ ymaxCrop' = Max(ymaxCrop, hi)
    /\ UNCHANGED <<pc, isPowerStart, prevCenter2, prevBottom, boxes,
                   reconVars, dfsVars, scanVars, callVars>>

\* segment.py:107-141: the column pass found ink, a glyph is emitted
EmitGlyph ==
    /\ pc = "scan"
    /\ write_flag
    /\ write_flag' = FALSE
    /\ isPowerStart' = Append(isPowerStart,
                              ClassifyRole(yminCrop, ymaxCrop, prevCenter2, prevBottom))
    /\ prevCenter2' = yminCrop + ymaxCrop
    /\ prevBottom' = ymaxCrop
    /\ yminCrop' = 100000
    /\ ymaxCrop' = 0
    /\ boxes' = Append(boxes, <<yminCrop, ymaxCrop>>)
    /\ UNCHANGED <<pc, reconVars, dfsVars, scanVars, callVars>>

NextLayout == (\E b \in ColumnBoxes : Accumulate(b[1], b[2])) \/ EmitGlyph

\* the roles of every short sequence of glyph boxes
SpecLayout == InitLayout /\ [][NextLayout]_vars

---------------------------------------------------------------------------
(* dfs, segment.py:210-241, on a binarized raster.  An image is a sequence  *)
(* of rows; Pixel(img, x, y) is img[x][y] for the 0-based row x and column  *)
(* y.  The stack is a sequence whose last element is the top.               *)

\* segment.py:232 (and 89): a pixel is ink when its value is at most 123
InkLevel == 123

\* img.shape[0] and img.shape[1]
Shape0(img) == Len(img)

Shape1(img) == Len(img[1])

Pixel(img, x, y) == img[x + 1][y + 1]

\* img[x][y] = v
SetPixel(img, x, y, v) == [img EXCEPT ![x + 1][y + 1] = v]

\* segment.py:89 / 232
IsInk(img, x, y) == Pixel(img, x, y) <= InkLevel

\* segment.py:239
InRaster(img, x, y) ==
    x >= 0 /\ x < Shape0(img) /\ y >= 0 /\ y < Shape1(img)

\* the offsets of the four side neighbours and of the pixel itself
OffsetsNoCorners ==
    <<<<-1, 0>>, <<0, -1>>, <<0, 0>>, <<0, 1>>, <<1, 0>>>>

\* segment.py:237-238, the offsets (i, j) in the order of the two for loops
Offsets ==
    <<<<-1, -1>>, <<-1, 0>>, <<-1, 1>>,
      <<0, -1>>,  <<0, 0>>,  <<0, 1>>,
      <<1, -1>>,  <<1, 0>>,  <<1, 1>>>>

\* segment.py:237-240, the pixels pushed for the ink pixel (x, y), in order
Pushed(img, x, y) ==
    SelectSeq([k \in 1..Len(Offsets) |-> <<x + Offsets[k][1], y + Offsets[k][2]>>],
              LAMBDA p : InRaster(img, p[1], p[2]))

\* the writes for a popped ink pixel with the two indices of the output
\* buffer exchanged
EraseSwapped(d, x, y) ==
    [d EXCEPT !.gray = SetPixel(@, x, y, 255),
              !.out = SetPixel(@, y % Shape0(@), x % Shape1(@), 0)]

\* segment.py:235-236, the writes for a popped ink pixel
Erase(d, x, y) ==
    [d EXCEPT !.gray = SetPixel(@, x, y, 255), !.out = SetPixel(@, x, y, 0)]

\* an iteration that leaves the pixel it looked at on the stack
DfsStepKeepsTop(d) ==
    LET x  == Last(d.stack)[1]
        y  == Last(d.stack)[2]
        d1 == [d EXCEPT !.ymax = Max(y, @), !.ymin = Min(y, @),
                        !.xmax = Max(x, @), !.xmin = Min(x, @)]
    IN  IF Pixel(d.gray, x, y) > InkLevel THEN d1
        ELSE [Erase(d1, x, y) EXCEPT !.stack = @ \o Pushed(d.gray, x, y)]

\* segment.py:219-240, one iteration of the while loop of dfs on the locals
\* and globals d
DfsStep(d) ==
    LET x  == Last(d.stack)[1]
        y  == Last(d.stack)[2]
        d1 == [d EXCEPT !.ymax = Max(y, @), !.ymin = Min(y, @),
                        !.xmax = Max(x, @), !.xmin = Min(x, @),
                        !.stack = DropLast(@)]
    IN  IF Pixel(d.gray, x, y) > InkLevel THEN d1
        ELSE [Erase(d1, x, y) EXCEPT !.stack = @ \o Pushed(d.gray, x, y)]

\* the binarized rasters (segment.py:59-67 leaves 0 and 255 only)
Rasters == [1..MaxRows -> [1..MaxCols -> {0, 255}]]

\* segment.py:82, np.full(shape, 255)
Blank(img) == [x \in 1..Shape0(img) |-> [y \in 1..Shape1(img) |-> 255]]

\* the dfs calls SpecDfs makes on one raster: an extraction and a second one
Extractions == {"first", "second"}

\* the state before the first dfs call on a raster
InitDfs ==
    /\ pc = "idle"
    /\ gray_image \in Rasters
    /\ output_image = Blank(gray_image)
    /\ stack = <<>>
    /\ xmin = 0 /\ xmax = 0 /\ ymin = 0 /\ ymax = 0
    /\ dfsEntry = <<>>
    /\ dfsCalls = <<>>
    /\ dfsReturn = 0
    /\ isPowerStart = <<>>
    /\ ReconIdle
    /\ LayoutIdle
    /\ ScanIdle
    /\ CallsIdle

\* segment.py:210-217, the call dfs(a, b)
DfsCall(a, b) ==
    /\ pc = "idle"
    /\ Len(dfsCalls) < Cardinality(Extractions)
    /\ InRaster(gray_image, a, b)
    /\ ymin' = b /\ ymax' = b
    /\ xmax' = a /\ xmin' = a
    /\ stack' = <<<<a, b>>>>
    /\ dfsEntry' = [start |-> <<a, b>>, gray |-> gray_image, out |-> output_image]
    /\ pc' = "dfs"
    /\ UNCHANGED <<gray_image, output_image, dfsCalls, dfsReturn,
                   isPowerStart, reconVars, layoutVars, scanVars, callVars>>

\* segment.py:218-240, one iteration of the while loop
DfsPop ==
    /\ pc = "dfs"
    /\ Len(stack) # 0
    /\ LET d == DfsStep([gray |-> gray_image, out |-> output_image,
                         stack |-> stack, xmin |-> xmin, xmax |-> xmax,
                         ymin |-> ymin, ymax |-> ymax])
       IN  /\ gray_image' = d.gray
           /\ output_image' = d.out
           /\ stack' = d.stack
           /\ xmin' = d.xmin /\ xmax' = d.xmax
           /\ ymin' = d.ymin /\ ymax' = d.ymax
    /\ UNCHANGED <<pc, dfsEntry, dfsCalls, dfsReturn, isPowerStart,
                   reconVars, layoutVars, scanVars, callVars>>

\* segment.py:241, return (ymax-ymin)
DfsReturn ==
    /\ pc = "dfs"
    /\ Len(stack) = 0
    /\ dfsReturn' = ymax - ymin
    /\ dfsCalls' = Append(dfsCalls,
                          [start |-> dfsEntry.start,
                           grayIn |-> dfsEntry.gray, grayOut |-> gray_image,
                           outIn |-> dfsEntry.out, outOut |-> output_image])
    /\ pc' = "idle"
    /\ UNCHANGED <<gray_image, output_image, stack, xmin, xmax, ymin, ymax,
                   dfsEntry, isPowerStart, reconVars, layoutVars, scanVars, callVars>>

NextDfs ==
    \/ \E a \in 0..(MaxRows - 1), b \in 0..(MaxCols - 1) : DfsCall(a, b)
    \/ DfsPop
    \/ DfsReturn

\* two dfs calls, each from any pixel, on every raster of MaxRows x MaxCols
\* pixels
SpecDfs == InitDfs /\ [][NextDfs]_vars

\* one dfs call from any pixel
NextDfsOnce ==
    \/ \E a \in 0..(MaxRows - 1), b \in 0..(MaxCols - 1) :
          dfsCalls = <<>> /\ DfsCall(a, b)
    \/ DfsPop
    \/ DfsReturn

\* one dfs call, from any pixel, on every raster of MaxRows x MaxCols pixels
\* (every raster a second call can find is one of them), with the while loop
\* of dfs (segment.py:218) and its return (line 241) going on as long as they
\* can: dfs is straight-line sequential code that nothing suspends
SpecDfsFair ==
    InitDfs /\ [][NextDfsOnce]_vars /\ WF_vars(DfsPop) /\ WF_vars(DfsReturn)

---------------------------------------------------------------------------
(* The column-major scan, segment.py:84-141.  One step is the inner while   *)
(* loop running over background cells down to the next ink cell, the body   *)
(* of the loop for an ink cell (lines 89-104), or the end of a column pass  *)
(* (lines 105-141 and the loop tests of lines 85-87).  dfs runs to its end  *)
(* inside the step that calls it.                                           *)

\* segment.py:218-240, n iterations of the while loop of dfs, or fewer when
\* the stack empties first.  The iterations are split in two halves to keep
\* the evaluation shallow, and the state between the halves is bound as the
\* element of a one-element set so that it is evaluated once.
RECURSIVE DfsIterate(_, _)
DfsIterate(d, n) ==
    IF n = 0 \/ Len(d.stack) = 0 THEN d
    ELSE IF n = 1 THEN DfsStep(d)
    ELSE CHOOSE r \in {DfsIterate(e, n - n \div 2) :
                          e \in {DfsIterate(d, n \div 2)}} : TRUE

\* segment.py:218, the while loop of dfs run until the stack is empty: every
\* iteration pops one pixel, and only a popped ink pixel pushes (at most nine
\* pixels, once, since it is erased), so the loop ends within
\* 1 + 9 * rows * columns iterations
DfsLoop(d) == DfsIterate(d, 1 + 9 * Shape0(d.gray) * Shape1(d.gray))

\* the extent of the recorded box on the first raster index
ReturnedRowExtent(d) == d.xmax - d.xmin

\* segment.py:241, return (ymax-ymin)
Returned(d) == d.ymax - d.ymin

\* segment.py:210-241, the call dfs(a, b) on the images gray and out: the two
\* images and the four globals when the call returns, and the value returned
Dfs(gray, out, a, b) ==
    CHOOSE r \in
        {[gray |-> d.gray, out |-> d.out,
          xmin |-> d.xmin, xmax |-> d.xmax, ymin |-> d.ymin, ymax |-> d.ymax,
          ret |-> Returned(d)] :
         d \in {DfsLoop([gray |-> gray, out |-> out, stack |-> <<<<a, b>>>>,
                         xmin |-> a, xmax |-> a, ymin |-> b, ymax |-> b])}} :
        TRUE

\* the least and the greatest element of a non-empty set of integers
SetMin(S) == CHOOSE m \in S : \A n \in S : m <= n

SetMax(S) == CHOOSE m \in S : \A n \in S : m >= n

\* segment.py:100, int(yjump*0.5) for the integer yjump >= 0
MaxJump(yjump) == yjump \div 2

\* segment.py:112, the slice img[r0:r1, c0:c1] (0 <= r0, r1 <= rows, and the
\* same for the columns): rows r0 .. r1-1 and columns c0 .. c1-1
Crop(img, r0, r1, c0, c1) ==
    [r \in 1..(r1 - r0) |-> [c \in 1..(c1 - c0) |-> img[r0 + r][c0 + c]]]

\* math.floor(n/2) and math.ceil(n/2) for the integer n >= 0
FloorHalf(n) == n \div 2

CeilHalf(n) == (n + 1) \div 2

\* segment.py:114-125, the four borders top, bottom, left, right for
\* ydiff = xmax-xmin and xdiff = ymax-ymin
Pads(xdiff, ydiff) ==
    IF xdiff > ydiff
    THEN [top |-> FloorHalf(xdiff - ydiff), bottom |-> CeilHalf(xdiff - ydiff),
          left |-> 0, right |-> 0]
    ELSE [top |-> 0, bottom |-> 0,
          left |-> FloorHalf(ydiff - xdiff), right |-> CeilHalf(ydiff - xdiff)]

\* segment.py:124-126, cv2.copyMakeBorder(src, top, bottom, left, right,
\* BORDER_CONSTANT, 255)
MakeBorder(src, p) ==
    LET h == Len(src)
        w == IF h = 0 THEN 0 ELSE Len(src[1])
    IN  [r \in 1..(p.top + h + p.bottom) |->
            [c \in 1..(p.left + w + p.right) |->
                IF /\ r > p.top /\ r <= p.top + h
                   /\ c > p.left /\ c <= p.left + w
                THEN src[r - p.top][c - p.left]
                ELSE 255]]

\* the crop accumulators left as the glyph just written had them
CropKept ==
    [xmin |-> xminCrop, ymin |-> yminCrop, xmax |-> xmaxCrop, ymax |-> ymaxCrop]

\* the crop accumulators all reset to 0
CropResetToZero ==
    [xmin |-> 0, ymin |-> 0, xmax |-> 0, ymax |-> 0]

\* segment.py:140-141, the crop accumulators after a glyph was written
CropReset ==
    [xmin |-> 100000, ymin |-> 100000, xmax |-> 0, ymax |-> 0]

\* the binarized rasters SpecScan scans
ScanRasters == [1..ScanRows -> [1..ScanCols -> {0, 255}]]

\* the state at segment.py:86 of the first column pass
InitScan ==
    /\ pc = "scanning"
    /\ gray_image \in ScanRasters
    /\ output_image = Blank(gray_image)
    /\ scanIn = gray_image
    /\ j = 0
    /\ isPowerStart = <<>>
    /\ xminCrop = 100000 /\ yminCrop = 100000
    /\ xmaxCrop = 0 /\ ymaxCrop = 0
    /\ write_flag = FALSE
    /\ prevCenter2 = PrevStart.center2
    /\ prevBottom = PrevStart.bottom
    /\ boxes = <<>>
    /\ glyphs = <<>>
    /\ cellReads = {}
    /\ extracted = <<>>
    /\ stack = <<>>
    /\ xmin = 0 /\ xmax = 0 /\ ymin = 0 /\ ymax = 0
    /\ dfsEntry = <<>> /\ dfsCalls = <<>> /\ dfsReturn = 0
    /\ im = <<>> /\ imIn = <<>>
    /\ ReconIdle
    /\ CallsIdle

\* segment.py:89, gray_image[i][j] for a column index past the last column:
\* NumPy raises IndexError, which nothing catches
ScanOutside ==
    /\ pc = "scanning"
    /\ i < Shape0(gray_image)
    /\ ~InRaster(gray_image, i, j)
    /\ cellReads' = cellReads \cup {<<i, j>>}
    /\ raised' = "IndexError"
    /\ pc' = "raised"
    /\ UNCHANGED <<isPowerStart, segLabels, predicted_list, isPowerStart2,
                   final_eq, i, reads, emitted, solvesetResult, solution,
                   stdout, layoutVars, dfsVars, j, xminCrop, xmaxCrop, glyphs,
                   scanIn, extracted, im, imIn,
                   callVars>>

\* the first row from row r on whose cell in column c is ink, or the number
\* of rows when there is none
NextInkRow(img, r, c) ==
    SetMin({k \in r..(Shape0(img) - 1) : IsInk(img, k, c)} \cup {Shape0(img)})

\* segment.py:87-89 and 104, the iterations of the inner loop over the
\* background cells from row i down to the next ink cell of column j (or to
\* the end of the column): each reads its cell and does i += 1
ScanBackground ==
    /\ pc = "scanning"
    /\ i < Shape0(gray_image)
    /\ InRaster(gray_image, i, j)
    /\ ~IsInk(gray_image, i, j)
    /\ i' = NextInkRow(gray_image, i, j)
    /\ cellReads' = cellReads \cup {<<k, j>> : k \in i..(i' - 1)}
    /\ UNCHANGED <<pc, isPowerStart, segLabels, predicted_list, isPowerStart2,
                   final_eq, reads, emitted, raised, solvesetResult, solution,
                   stdout, layoutVars, dfsVars, j, xminCrop, xmaxCrop, glyphs,
                   scanIn, extracted, im, imIn,
                   callVars>>

\* segment.py:89-104, an ink cell: dfs extracts its component, the crop box
\* takes in the box dfs recorded, and the scan jumps max_jump columns ahead
ScanInk ==
    /\ pc = "scanning"
    /\ i < Shape0(gray_image)
    /\ InRaster(gray_image, i, j)
    /\ IsInk(gray_image, i, j)
    /\ cellReads' = cellReads \cup {<<i, j>>}
    /\ write_flag' = TRUE
    /\ \E d \in {Dfs(gray_image, output_image, i, j)} :
       LET max_jump == MaxJump(d.ret)
       IN  /\ gray_image' = d.gray
           /\ output_image' = d.out
           /\ xmin' = d.xmin /\ xmax' = d.xmax
           /\ ymin' = d.ymin /\ ymax' = d.ymax
           /\ dfsReturn' = d.ret
           /\ xminCrop' = Min(xminCrop, d.xmin)
           /\ yminCrop' = Min(yminCrop, d.ymin)
           /\ xmaxCrop' = Max(xmaxCrop, d.xmax)
           /\ ymaxCrop' = Max(ymaxCrop, d.ymax)
           /\ extracted' = Append(extracted,
                                  [start |-> <<i, j>>, ret |-> d.ret,
                                   rows |-> <<d.xmin, d.xmax>>,
                                   cols |-> <<d.ymin, d.ymax>>])
           /\ IF max_jump # 0
              THEN j' = j + max_jump /\ i' = 0
              ELSE j' = j /\ i' = i + 1
    /\ UNCHANGED <<pc, isPowerStart, segLabels, predicted_list, isPowerStart2,
                   final_eq, reads, emitted, raised, solvesetResult, solution,
                   stdout, prevCenter2, prevBottom, boxes, stack, dfsEntry,
                   dfsCalls, glyphs, scanIn, im, imIn,
                   callVars>>

\* segment.py:107-141, the glyph of a column pass that found ink: the record
\* of the image written (line 128) and the variables after line 141
WriteGlyph ==
    LET image == MakeBorder(Crop(output_image, xminCrop, xmaxCrop,
                                 yminCrop, ymaxCrop),
                            Pads(ymax - ymin, xmax - xmin))
        role  == ClassifyRole(yminCrop, ymaxCrop, prevCenter2, prevBottom)
    IN  /\ glyphs' = Append(glyphs,
                            [rows |-> <<xminCrop, xmaxCrop>>,
                             cols |-> <<yminCrop, ymaxCrop>>,
                             image |-> image, role |-> role,
                             upto |-> Len(extracted)])
        /\ write_flag' = FALSE
        /\ output_image' = Blank(gray_image)
        /\ isPowerStart' = Append(isPowerStart, role)
        /\ boxes' = Append(boxes, <<yminCrop, ymaxCrop>>)
        /\ prevCenter2' = yminCrop + ymaxCrop
        /\ prevBottom' = ymaxCrop
        /\ xminCrop' = CropReset.xmin /\ yminCrop' = CropReset.ymin
        /\ xmaxCrop' = CropReset.xmax /\ ymaxCrop' = CropReset.ymax

\* segment.py:105-141 and the tests of lines 85-87: the inner loop has ended,
\* j += 1, the glyph of the pass is written if the pass found ink, and the
\* outer loop starts the next column or ends
ColumnEnd ==
    /\ pc = "scanning"
    /\ i >= Shape0(gray_image)
    /\ j' = j + 1
    /\ IF write_flag
       THEN WriteGlyph
       ELSE UNCHANGED <<glyphs, write_flag, output_image, isPowerStart, boxes,
                        prevCenter2, prevBottom, xminCrop, yminCrop, xmaxCrop,
                        ymaxCrop>>
    /\ IF j + 1 < Shape1(gray_image)
       THEN i' = 0 /\ pc' = "scanning"
       ELSE i' = i /\ pc' = "scanned"
    /\ UNCHANGED <<segLabels, predicted_list, isPowerStart2, final_eq, reads,
                   emitted, raised, solvesetResult, solution, stdout,
                   gray_image, stack, xmin, xmax, ymin, ymax, dfsEntry,
                   dfsCalls, dfsReturn, scanIn, cellReads, extracted, im, imIn,
                   callVars>>

NextScan == ScanOutside \/ ScanBackground \/ ScanInk \/ ColumnEnd

\* the scan of every raster of ScanRows x ScanCols pixels
SpecScan == InitScan /\ [][NextScan]_vars

\* the binarized rasters of WideRows x WideCols pixels that have ink at the
\* cells of a list of up to WideInk cells and nowhere else
WideRasters ==
    {[r \in 1..WideRows |->
         [c \in 1..WideCols |->
             IF \E n \in DOMAIN cells : cells[n] = <<r, c>> THEN 0 ELSE 255]] :
     cells \in UNION {[1..n -> (1..WideRows) \X (1..WideCols)] : n \in 0..WideInk}}

\* the state at segment.py:86 of the first column pass, for the wide rasters
InitScanWide ==
    /\ pc = "scanning"
    /\ gray_image \in WideRasters
    /\ output_image = Blank(gray_image)
    /\ scanIn = gray_image
    /\ j = 0
    /\ isPowerStart = <<>>
    /\ xminCrop = 100000 /\ yminCrop = 100000
    /\ xmaxCrop = 0 /\ ymaxCrop = 0
    /\ write_flag = FALSE
    /\ prevCenter2 = PrevStart.center2
    /\ prevBottom = PrevStart.bottom
    /\ boxes = <<>>
    /\ glyphs = <<>>
    /\ cellReads = {}
    /\ extracted = <<>>
    /\ stack = <<>>
    /\ xmin = 0 /\ xmax = 0 /\ ymin = 0 /\ ymax = 0
    /\ dfsEntry = <<>> /\ dfsCalls = <<>> /\ dfsReturn = 0
    /\ im = <<>> /\ imIn = <<>>
    /\ ReconIdle
    /\ CallsIdle

\* the scan of every raster of WideRows x WideCols pixels with up to WideInk
\* ink pixels: rasters wide enough for several glyphs that start right of
\* the first columns
SpecScanWide == InitScanWide /\ [][NextScan]_vars

---------------------------------------------------------------------------
(* The scan as a function, for the runs that share one process.  The       *)
(* module-level names of segment.py (lines 13-15, 36 and 81) are one record *)
(* g per process,                                                           *)
(*   gray_image, output_image, xmin, xmax, ymin, ymax,                      *)
(*   xminCrop, xmaxCrop, yminCrop, ymaxCrop,                                *)
(* and the locals of img_segment are one record l per activation,           *)
(*   im            the binarized image of the activation (line 44-67),      *)
(*   i, j, write_flag, prevCenter2, prevBottom, isPowerStart,               *)
(*   glyphs        history: the glyphs written, as in the variable glyphs,  *)
(*   pc, raised    where the activation is and the exception that left it.  *)
(* ScanStep is one step of the scan in the sense of SpecScan.               *)

\* segment.py:13-15, the module-level names when the module is loaded;
\* gray_image and output_image are bound by the first activation
FreshGlobals ==
    [gray_image |-> <<>>, output_image |-> <<>>,
     xmin |-> 0, xmax |-> 0, ymin |-> 0, ymax |-> 0,
     xminCrop |-> 100000, yminCrop |-> 100000, xmaxCrop |-> 0, ymaxCrop |-> 0]

\* an activation of img_segment that has binarized its image im0 and is at
\* segment.py:71
AtLine71(im0) ==
    [pc |-> "start", raised |-> "none", im |-> im0, i |-> 0, j |-> 0,
     write_flag |-> FALSE, prevCenter2 |-> PrevStart.center2,
     prevBottom |-> PrevStart.bottom, isPowerStart |-> <<>>, glyphs |-> <<>>]

\* segment.py:71-86: gray_image = im, the locals of the scan,
\* output_image = np.full(...), and the first tests of the two loops
ScanStart(l, g) ==
    [l |-> [l EXCEPT !.pc = IF Shape1(l.im) > 0 THEN "scanning" ELSE "scanned",
                     !.i = 0, !.j = 0, !.write_flag = FALSE,
                     !.prevCenter2 = PrevStart.center2,
                     !.prevBottom = PrevStart.bottom,
                     !.isPowerStart = <<>>],
     g |-> [g EXCEPT !.gray_image = l.im, !.output_image = Blank(l.im)]]

\* segment.py:89-104, an ink cell (ScanInk)
InkStep(l, g) ==
    CHOOSE n \in
        {[l |-> [l EXCEPT !.write_flag = TRUE,
                          !.j = IF MaxJump(d.ret) # 0 THEN @ + MaxJump(d.ret) ELSE @,
                          !.i = IF MaxJump(d.ret) # 0 THEN 0 ELSE @ + 1],
          g |-> [g EXCEPT !.gray_image = d.gray, !.output_image = d.out,
                          !.xmin = d.xmin, !.xmax = d.xmax,
                          !.ymin = d.ymin, !.ymax = d.ymax,
                          !.xminCrop = Min(@, d.xmin), !.yminCrop = Min(@, d.ymin),
                          !.xmaxCrop = Max(@, d.xmax), !.ymaxCrop = Max(@, d.ymax)]] :
         d \in {Dfs(g.gray_image, g.output_image, l.i, l.j)}} : TRUE

\* segment.py:112, whether the slice of the output buffer holds no pixel
EmptyCrop(g) ==
    \/ Min(g.xmaxCrop, Shape0(g.output_image)) <= g.xminCrop
    \/ Min(g.ymaxCrop, Shape1(g.output_image)) <= g.yminCrop

\* segment.py:112, output_image[xminCrop:xmaxCrop, yminCrop:ymaxCrop]: a
\* slice stops at the end of the axis and is empty when it starts past it
Slice(g) ==
    IF EmptyCrop(g) THEN <<>>
    ELSE Crop(g.output_image,
              g.xminCrop, Min(g.xmaxCrop, Shape0(g.output_image)),
              g.yminCrop, Min(g.ymaxCrop, Shape1(g.output_image)))

\* segment.py:107-141, the glyph of a column pass that found ink (WriteGlyph)
GlyphStep(l, g) ==
    LET role == ClassifyRole(g.yminCrop, g.ymaxCrop, l.prevCenter2, l.prevBottom)
    IN  [l |-> [l EXCEPT !.write_flag = FALSE,
                         !.glyphs = Append(@,
                             [rows |-> <<g.xminCrop, g.xmaxCrop>>,
                              cols |-> <<g.yminCrop, g.ymaxCrop>>,
                              image |-> MakeBorder(Slice(g),
                                            Pads(g.ymax - g.ymin, g.xmax - g.xmin)),
                              role |-> role]),
                         !.isPowerStart = Append(@, role),
                         !.prevCenter2 = g.yminCrop + g.ymaxCrop,
                         !.prevBottom = g.ymaxCrop],
         g |-> [g EXCEPT !.output_image = Blank(g.gray_image),
                         !.xminCrop = CropReset.xmin, !.yminCrop = CropReset.ymin,
                         !.xmaxCrop = CropReset.xmax, !.ymaxCrop = CropReset.ymax]]

\* segment.py:105-141 and the tests of lines 85-87 (ColumnEnd)
ColumnEndStep(l, g) ==
    CHOOSE n \in
        {[l |-> [w.l EXCEPT !.j = @ + 1,
                            !.i = IF l.j + 1 < Shape1(g.gray_image) THEN 0 ELSE @,
                            !.pc = IF l.j + 1 < Shape1(g.gray_image)
                                   THEN "scanning" ELSE "scanned"],
          g |-> w.g] :
         w \in {IF l.write_flag THEN GlyphStep(l, g) ELSE [l |-> l, g |-> g]}} :
        TRUE

\* one step of the scan of the activation l on the module-level names g
ScanStep(l, g) ==
    IF l.i >= Shape0(g.gray_image) THEN ColumnEndStep(l, g)
    ELSE IF ~InRaster(g.gray_image, l.i, l.j)
    THEN [l |-> [l EXCEPT !.pc = "raised", !.raised = "IndexError"], g |-> g]
    ELSE IF ~IsInk(g.gray_image, l.i, l.j)
    THEN [l |-> [l EXCEPT !.i = NextInkRow(g.gray_image, l.i, l.j)], g |-> g]
    ELSE InkStep(l, g)

\* up to n steps of the scan of one activation with no other activation
\* between them
RECURSIVE ScanIterate(_, _)
ScanIterate(s, n) ==
    IF n = 0 \/ s.l.pc # "scanning" THEN s
    ELSE CHOOSE r \in {ScanIterate(t, n - 1) : t \in {ScanStep(s.l, s.g)}} : TRUE

\* segment.py:71-141 for the binarized image im0 in a process of its own:
\* the locals when the scan has ended.  A column is left after at most two
\* steps per row and one for its end, and every jump leaves a column.
ScanAlone(im0) ==
    ScanIterate(ScanStart(AtLine71(im0), FreshGlobals),
                1 + (Shape1(im0) + 1) * (2 * Shape0(im0) + 2)).l

\* the module-level names as the variables hold them
Globals ==
    [gray_image |-> gray_image, output_image |-> output_image,
     xmin |-> xmin, xmax |-> xmax, ymin |-> ymin, ymax |-> ymax,
     xminCrop |-> xminCrop, yminCrop |-> yminCrop,
     xmaxCrop |-> xmaxCrop, ymaxCrop |-> ymaxCrop]

\* the module-level names take the values of the record g
SetGlobals(g) ==
    /\ gray_image' = g.gray_image /\ output_image' = g.output_image
    /\ xmin' = g.xmin /\ xmax' = g.xmax /\ ymin' = g.ymin /\ ymax' = g.ymax
    /\ xminCrop' = g.xminCrop /\ yminCrop' = g.yminCrop
    /\ xmaxCrop' = g.xmaxCrop /\ ymaxCrop' = g.ymaxCrop

\* the binarized rasters of the two activations
PairRasters == [1..PairRows -> [1..PairCols -> {0, 255}]]

\* two activations of img_segment in one process, each at segment.py:71
\* with a raster of its own, in a module that was just loaded
InitPair ==
    /\ pc = "pair"
    /\ runs \in [1..2 -> {AtLine71(im0) : im0 \in PairRasters}]
    /\ solveSystem = <<>>
    /\ isPowerStart = <<>>
    /\ ReconIdle
    /\ LayoutIdle
    /\ DfsIdle
    /\ ScanIdle

\* what a step of an activation leaves alone
PairFrame ==
    UNCHANGED <<pc, isPowerStart, reconVars, write_flag, prevCenter2,
                prevBottom, boxes, stack, dfsEntry, dfsCalls, dfsReturn, j,
                glyphs, scanIn, cellReads, extracted, im, imIn, solveSystem>>

\* segment.py:71-86, activation r starts its scan
RunStart(r) ==
    /\ runs[r].pc = "start"
    /\ \E n \in {ScanStart(runs[r], Globals)} :
          /\ runs' = [runs EXCEPT ![r] = n.l]
          /\ SetGlobals(n.g)
    /\ PairFrame

\* segment.py:85-141, one step of the scan of activation r.  What
\* cv2.copyMakeBorder and cv2.imwrite do with a slice that holds no pixel
\* is left open: the step goes on, or cv2.error leaves the activation.
RunStep(r) ==
    /\ runs[r].pc = "scanning"
    /\ \/ \E n \in {ScanStep(runs[r], Globals)} :
             /\ runs' = [runs EXCEPT ![r] = n.l]
             /\ SetGlobals(n.g)
       \/ /\ runs[r].i >= Shape0(gray_image)
          /\ runs[r].write_flag
          /\ EmptyCrop(Globals)
          /\ runs' = [runs EXCEPT ![r].pc = "raised", ![r].raised = "cv2.error",
                                  ![r].j = @ + 1, ![r].write_flag = FALSE]
          /\ SetGlobals([Globals EXCEPT
                            !.output_image = Slice(Globals)])
    /\ PairFrame

\* the steps of the two activations in any order
NextPair == \E r \in 1..2 : RunStart(r) \/ RunStep(r)

\* two runs of segment.py:71-141 in one process, on every pair of rasters of
\* PairRows x PairCols pixels.  A step of one activation is atomic here;
\* threads could also be switched inside a step.
SpecPair == InitPair /\ [][NextPair]_vars

---------------------------------------------------------------------------
(* crop_img as img_segment calls it, segment.py:19-25 and 34.  An image is  *)
(* a sequence of rows; SpecCrop gives every cell its own coordinates as     *)
(* content, so that the rows and columns a crop keeps can be told.          *)

\* segment.py:34, the scale img_segment passes to crop_img, in hundredths
ScalePercent == 40

\* segment.py:23-24, int(bottom_y) for bottom_y = center_y + height_scaled/2
\* = h/2 + (h*scale)/2, i.e. the integer part of h*(1 + scale)/2.  (The
\* binary64 value of h/2 + (h*0.40)/2 has that integer part for every height
\* h from 1 to 20000.)
BottomY(h, percent) == (h * (100 + percent)) \div 200

\* segment.py:22 and 24, int(right_x) for right_x = 2 * center_x = 2 * (w/2)
RightX(w) == (2 * w) \div 2

\* segment.py:19-25, img[int(top_y):int(bottom_y), int(left_x):int(right_x)]
\* with top_y = 0 and left_x = 0; a slice stops at the end of the axis
crop_img(img, percent) ==
    LET h == Len(img)
        w == Len(img[1])
    IN  [r \in 1..Min(h, BottomY(h, percent)) |->
            [c \in 1..Min(w, RightX(w)) |-> img[r][c]]]

\* the images of h rows and w columns, each cell holding its coordinates
CropImages ==
    {[r \in 1..h |-> [c \in 1..w |-> <<r - 1, c - 1>>]] :
        h \in 1..MaxHeight, w \in 1..MaxWidth}

\* the variables of the scan while it is not running
ScanOff ==
    /\ j = 0 /\ xminCrop = 100000 /\ xmaxCrop = 0
    /\ glyphs = <<>> /\ scanIn = <<>> /\ cellReads = {} /\ extracted = <<>>

\* the state at segment.py:34
InitCrop ==
    /\ pc = "read"
    /\ im \in CropImages
    /\ imIn = im
    /\ isPowerStart = <<>>
    /\ ReconIdle
    /\ LayoutIdle
    /\ DfsIdle
    /\ ScanOff
    /\ CallsIdle

\* segment.py:34, im = crop_img(im, 0.40)
CropImg ==
    /\ pc = "read"
    /\ im' = crop_img(im, ScalePercent)
    /\ pc' = "cropped"
    /\ UNCHANGED <<isPowerStart, reconVars, layoutVars, dfsVars, j, xminCrop,
                   xmaxCrop, glyphs, scanIn, cellReads, extracted, imIn,
                   callVars>>

NextCrop == CropImg

\* the crop of every image of up to MaxHeight x MaxWidth cells
SpecCrop == InitCrop /\ [][NextCrop]_vars

---------------------------------------------------------------------------
(* The binarization, segment.py:44-71, of a grayscale image of 8-bit        *)
(* intensities.                                                             *)

\* the intensities of the grayscale images of SpecBinarize
Levels == {1, 3, 6, 255}

\* the pixels of img in the order of the loops of lines 48-56: column by
\* column, each column from row 0 down
PixelSeq(img) ==
    [n \in 1..(Len(img) * Len(img[1])) |->
        img[((n - 1) % Len(img)) + 1][((n - 1) \div Len(img)) + 1]]

\* segment.py:45-56, mini and maxi after the pixels ps, from the values acc
RECURSIVE FindRange(_, _)
FindRange(ps, acc) ==
    IF Len(ps) = 0 THEN acc
    ELSE FindRange(Tail(ps),
                   [maxi |-> IF Head(ps) > acc.maxi THEN Head(ps) ELSE acc.maxi,
                    mini |-> IF Head(ps) < acc.mini THEN Head(ps) ELSE acc.mini])

\* the pairs (maxi, mini) of Levels for which avg = 0.4*maxi + 0.6*mini of
\* line 57, computed in binary64, is greater than the exact number (which is
\* an integer): 0.4*6 is 2.4000000000000004 and avg is 3.0000000000000004.
\* For every other pair of Levels avg is the exact number when that is an
\* integer, and has the same integer part otherwise; for maxi = mini = v,
\* any v of 0..255, 0.4*v + 0.6*v is exactly v.
RoundsUp == {<<6, 1>>}

\* the comparison of line 62 with <= in place of <
BelowOrAt(p, maxi, mini) ==
    \/ 10 * p <= 4 * maxi + 6 * mini
    \/ <<maxi, mini>> \in RoundsUp /\ 10 * p = 4 * maxi + 6 * mini

\* segment.py:57 and 62, im[i][j] < avg for the integer intensity p
Below(p, maxi, mini) ==
    \/ 10 * p < 4 * maxi + 6 * mini
    \/ <<maxi, mini>> \in RoundsUp /\ 10 * p = 4 * maxi + 6 * mini

\* segment.py:44-67, the image after the two passes: avg is fixed before the
\* second pass, which reads every pixel once, before it writes it
Binarized(img) ==
    LET range == FindRange(PixelSeq(img), [mini |-> 255, maxi |-> 0])
    IN  [r \in 1..Len(img) |->
            [c \in 1..Len(img[1]) |->
                IF Below(img[r][c], range.maxi, range.mini) THEN 0 ELSE 255]]

\* the image of BinRows x BinCols pixels that all have the intensity v
Uniform(v) == [r \in 1..BinRows |-> [c \in 1..BinCols |-> v]]

\* the grayscale images of BinRows x BinCols pixels: every image over Levels
\* and the uniform image of every 8-bit intensity
GrayImages ==
    [1..BinRows -> [1..BinCols -> Levels]] \cup {Uniform(v) : v \in 0..255}

\* the state at segment.py:44
InitBinarize ==
    /\ pc = "gray"
    /\ im \in GrayImages
    /\ imIn = im
    /\ gray_image = im
    /\ output_image = <<>> /\ stack = <<>>
    /\ xmin = 0 /\ xmax = 0 /\ ymin = 0 /\ ymax = 0
    /\ dfsEntry = <<>> /\ dfsCalls = <<>> /\ dfsReturn = 0
    /\ isPowerStart = <<>>
    /\ ReconIdle
    /\ LayoutIdle
    /\ ScanOff
    /\ CallsIdle

\* segment.py:44-71, the two passes and gray_image = im
Binarize ==
    /\ pc = "gray"
    /\ im' = Binarized(im)
    /\ gray_image' = im'
    /\ pc' = "binarized"
    /\ UNCHANGED <<isPowerStart, reconVars, layoutVars, output_image, stack,
                   xmin, xmax, ymin, ymax, dfsEntry, dfsCalls, dfsReturn,
                   j, xminCrop, xmaxCrop, glyphs, scanIn, cellReads, extracted,
                   imIn, callVars>>

NextBinarize == Binarize

\* the binarization of every grayscale image of BinRows x BinCols pixels
SpecBinarize == InitBinarize /\ [][NextBinarize]_vars

---------------------------------------------------------------------------
(* solveSystem, sympySolver.py:13-21.  parse_expr and solve belong to the   *)
(* bundled algebra engine: parse_expr returns the parsed expression or      *)
(* raises on a string that is no expression, and str(solve(...)) returns a  *)
(* string or raises.                                                        *)

\* the equation strings of SpecSolveSystem: two expressions and a string
\* that is no expression
EquationStrings == {"x - 1", "x + y", "x +"}

\* sympySolver.py:16, whether parse_expr(equation) raises (SyntaxError)
ParseRaises(equation) == equation = "x +"

\* what the call str(solve(parsed_equations)) of sympySolver.py:18 can do
SolveOutcomes ==
    {[kind |-> "return", value |-> v] : v \in {"[]", "{x: 1}"}}
    \cup {[kind |-> "raise", value |-> e] : e \in {"NotImplementedError", "TypeError"}}

\* a local variable that no assignment has bound yet
Unbound == "unbound"

\* the state at sympySolver.py:15, after parsed_equations = []
InitSolveSystem ==
    /\ pc = "parse"
    /\ \E eqs \in Streams(EquationStrings, MaxEquations) :
          solveSystem = [equations |-> eqs, parsed_equations |-> <<>>,
                         result |-> Unbound,
                         solve |-> [kind |-> "none", value |-> "none"],
                         returned |-> "none"]
    /\ runs = <<>>
    /\ isPowerStart = <<>>
    /\ ReconIdle
    /\ LayoutIdle
    /\ DfsIdle
    /\ ScanIdle

\* sympySolver.py:15-16, one iteration of the for loop, which no try
\* encloses: an exception of parse_expr leaves solveSystem
ParseEquation ==
    /\ pc = "parse"
    /\ Len(solveSystem.parsed_equations) < Len(solveSystem.equations)
    /\ LET equation ==
               solveSystem.equations[Len(solveSystem.parsed_equations) + 1]
       IN  IF ParseRaises(equation)
           THEN /\ raised' = "SyntaxError"
                /\ pc' = "raised"
                /\ UNCHANGED solveSystem
           ELSE /\ solveSystem' =
                       [solveSystem EXCEPT
                           !.parsed_equations = Append(@, <<"parsed", equation>>)]
                /\ UNCHANGED <<pc, raised>>
    /\ UNCHANGED <<isPowerStart, segLabels, predicted_list, isPowerStart2,
                   final_eq, i, reads, emitted, solvesetResult, solution,
                   stdout, layoutVars, dfsVars, scanVars, runs>>

\* sympySolver.py:17-18 and 20: result = str(solve(parsed_equations)) inside
\* the try; the bare except catches whatever it raises, before result is
\* assigned
TrySolve ==
    /\ pc = "parse"
    /\ Len(solveSystem.parsed_equations) = Len(solveSystem.equations)
    /\ \E o \in SolveOutcomes :
          /\ solveSystem' =
                 [solveSystem EXCEPT
                     !.solve = o,
                     !.result = IF o.kind = "return" THEN o.value ELSE @]
          /\ pc' = IF o.kind = "return" THEN "return"
                   ELSE IF Catches(o.value) THEN "except" ELSE "raised"
          /\ raised' = IF o.kind = "raise" /\ ~Catches(o.value)
                       THEN o.value ELSE raised
    /\ UNCHANGED <<isPowerStart, segLabels, predicted_list, isPowerStart2,
                   final_eq, i, reads, emitted, solvesetResult, solution,
                   stdout, layoutVars, dfsVars, scanVars, runs>>

\* sympySolver.py:19 and 21, return result: reading a local that was never
\* assigned raises UnboundLocalError
ReturnResult ==
    /\ pc \in {"return", "except"}
    /\ IF solveSystem.result = Unbound
       THEN /\ raised' = "UnboundLocalError"
            /\ pc' = "raised"
            /\ UNCHANGED solveSystem
       ELSE /\ solveSystem' = [solveSystem EXCEPT !.returned = solveSystem.result]
            /\ pc' = "returned"
            /\ UNCHANGED raised
    /\ UNCHANGED <<isPowerStart, segLabels, predicted_list, isPowerStart2,
                   final_eq, i, reads, emitted, solvesetResult, solution,
                   stdout, layoutVars, dfsVars, scanVars, runs>>

NextSolveSystem == ParseEquation \/ TrySolve \/ ReturnResult

\* solveSystem on every short list of equation strings
SpecSolveSystem == InitSolveSystem /\ [][NextSolveSystem]_vars

---------------------------------------------------------------------------
(* Vocabulary of the properties.                                           *)

\* the while loop has run to its end
Finished ==
    pc # "classify" /\ raised # "IndexError" /\ i >= Len(predicted_list)

\* the token stream of the run, as (label, role) pairs
Tokens == [k \in DOMAIN segLabels |-> <<segLabels[k], isPowerStart[k]>>]

\* sub occurs in s as a contiguous substring
Contains(s, sub) ==
    \E k \in 1..(Len(s) - Len(sub) + 1) : SubSeq(s, k, k + Len(sub) - 1) = sub

\* the index in predicted_list of the first token that glyph g (from 1) became
RECURSIVE ListIndex(_, _)
ListIndex(labels, g) ==
    IF g = 1 THEN 1
    ELSE ListIndex(labels, g - 1) + Len(Rewrite(labels[g - 1]))

\* a token that is neither a digit nor structural: a constant or a general symbol
IsSymbol(val) == ~IsDigit(val) /\ ~IsStructural(val)

\* predicted_list[p..q] is a maximal run of digit tokens
MaximalDigitRun(pl, p, q) ==
    /\ 1 <= p /\ p <= q /\ q <= Len(pl) - 2
    /\ \A k \in p..q : IsDigit(At(pl, k))
    /\ ~IsDigit(At(pl, p - 1))
    /\ ~IsDigit(At(pl, q + 1))

\* the tokens p..q went to final_eq side by side, in order, followed by one '*'
EmittedWithOneStar(p, q) ==
    /\ \A k \in p..q :
          /\ k \in DOMAIN emitted
          /\ emitted[k].pos = emitted[p].pos + (k - p)
          /\ emitted[k].pos <= Len(final_eq)
          /\ final_eq[emitted[k].pos] = At(predicted_list, k)
    /\ LET after == emitted[p].pos + (q - p) + 1
       IN  /\ after + 1 <= Len(final_eq)
           /\ final_eq[after] = "*"
           /\ final_eq[after + 1] # "*"

---------------------------------------------------------------------------
(* C1 - empty token stream.                                                *)

\* C1: for a raster with no ink (no token) the reconstruction raises nothing
\* and, once the loop has ended, final_eq is exactly "()".
C1_EmptyStream ==
    segLabels = <<>> =>
        /\ raised = "none"
        /\ pc # "raised"
        /\ Finished => final_eq = <<"(", ")">>

\* the run over the empty stream has written its result "()"
C1_Witness ==
    /\ segLabels = <<>>
    /\ pc = "done"
    /\ final_eq = <<"(", ")">>
    /\ stdout[1][3] = <<"(", ")">>

---------------------------------------------------------------------------
(* C2 - the scenario 2 x + 3.                                              *)

C2_Stream == <<<<"2", 0>>, <<"x", 0>>, <<"+", 0>>, <<"3", 0>>>>

\* C2 as stated: the tokens '2','x','+','3', all BASELINE, give "(2*x+3)".
C2_Original ==
    (Tokens = C2_Stream /\ Finished)
        => final_eq = <<"(", "2", "*", "x", "+", "3", ")">>

\* C2 amended: the tokens '2','x','+','3', all BASELINE, give "(2*(x)+3)":
\* the symbol is wrapped in its own group.
C2_Amended ==
    (Tokens = C2_Stream /\ Finished)
        => final_eq = <<"(", "2", "*", "(", "x", ")", "+", "3", ")">>

\* the loop has ended on the scenario's stream
C2_Witness ==
    /\ Tokens = C2_Stream
    /\ Finished
    /\ final_eq = <<"(", "2", "*", "(", "x", ")", "+", "3", ")">>

---------------------------------------------------------------------------
(* C3 - the scenario x with exponent 2.                                    *)

C3_Stream == <<<<"x", 0>>, <<"2", 1>>>>

\* C3: the tokens 'x' (BASELINE) and '2' (SUPERSCRIPT_START) give an
\* expression that contains "(x**2)".
C3_Superscript ==
    (Tokens = C3_Stream /\ Finished)
        => Contains(final_eq, <<"(", "x", "*", "*", "2", ")">>)

\* the loop has ended on the scenario's stream, with the exponent consumed by
\* the symbol branch
C3_Witness ==
    /\ Tokens = C3_Stream
    /\ Finished
    /\ emitted[2].by = "power"
    /\ final_eq = <<"(", "(", "x", "*", "*", "2", ")", ")">>

---------------------------------------------------------------------------
(* C4 - the rewriting of '='.                                              *)

\* C4: once the loop has ended, every '=' token of the stream stands in
\* final_eq as the three characters ")-(" side by side (nothing between them),
\* and final_eq holds no '='.
C4_EqualsRewritten ==
    Finished =>
        /\ \A g \in DOMAIN segLabels :
              segLabels[g] = "=" =>
                  LET c == ListIndex(segLabels, g)
                  IN  /\ {c, c + 1, c + 2} \subseteq DOMAIN emitted
                      /\ emitted[c + 1].pos = emitted[c].pos + 1
                      /\ emitted[c + 2].pos = emitted[c].pos + 2
                      /\ emitted[c + 2].pos <= Len(final_eq)
                      /\ SubSeq(final_eq, emitted[c].pos, emitted[c].pos + 2)
                             = <<")", "-", "(">>
        /\ \A k \in DOMAIN final_eq : final_eq[k] # "="
        /\ segLabels = <<"x", "=", "5">>
              => Contains(final_eq, <<")", "-", "(">>)

\* the loop has ended on x = 5
C4_Witness ==
    /\ Finished
    /\ segLabels = <<"x", "=", "5">>
    /\ final_eq = <<"(", "(", "x", ")", ")", "-", "(", "5", ")">>

---------------------------------------------------------------------------
(* C5 - numerals before a symbol.                                          *)

\* C5 as stated: every maximal run of digit tokens that is followed by a
\* symbol token stands in final_eq as its digits in order, followed by
\* exactly one '*'.
C5_Original ==
    Finished =>
        \A p, q \in 1..Len(predicted_list) :
            (MaximalDigitRun(predicted_list, p, q)
               /\ IsSymbol(At(predicted_list, q + 1)))
                => EmittedWithOneStar(p, q)

\* C5 amended: the same for the runs whose first digit is reached by the
\* dispatch of segment.py:163, that is, is not consumed into an exponent by
\* lines 192-198.
C5_Amended ==
    Finished =>
        \A p, q \in 1..Len(predicted_list) :
            (MaximalDigitRun(predicted_list, p, q)
               /\ IsSymbol(At(predicted_list, q + 1))
               /\ p \in DOMAIN emitted
               /\ emitted[p].by = "digit")
                => EmittedWithOneStar(p, q)

\* the loop has ended on a two-digit numeral followed by a symbol
C5_Witness ==
    /\ Finished
    /\ segLabels = <<"2", "5", "x">>
    /\ emitted[1].by = "digit"
    /\ final_eq = <<"(", "2", "5", "*", "(", "x", ")", ")">>

---------------------------------------------------------------------------
(* C6 - the lookahead stays inside the lists.                              *)

\* C6: every index read from predicted_list and isPowerStart2 is within
\* 0 .. len-1, and no IndexError is raised.
C6_ReadsInBounds ==
    /\ raised # "IndexError"
    /\ pc # "classify" =>
          /\ Len(isPowerStart2) = Len(predicted_list)
          /\ \A k \in reads : 0 <= k /\ k < Len(predicted_list)

\* the loop has ended on a stream whose last token is a digit that starts an
\* exponent, having read the last index of the lists
C6_Witness ==
    /\ Finished
    /\ Len(segLabels) = 2
    /\ segLabels[1] = "x"
    /\ IsDigit(segLabels[2])
    /\ isPowerStart[2] = 1
    /\ (Len(predicted_list) - 1) \in reads

---------------------------------------------------------------------------
(* C7 - solveIt.                                                           *)

\* C7: no exception leaves solveIt; when solveset raised, solveIt returned
\* the sentinel, and otherwise the string of the solution set.
C7_SolveItTotal ==
    solvesetResult.kind # "none" =>
        /\ raised = "none"
        /\ pc # "raised"
        /\ solvesetResult.kind = "raise" => solution = Sentinel
        /\ solvesetResult.kind = "return" => solution = solvesetResult.value

\* solveset raised KeyboardInterrupt and the run went on to print the sentinel
C7_Witness ==
    /\ solvesetResult = [kind |-> "raise", value |-> "KeyboardInterrupt"]
    /\ pc = "done"
    /\ solution = Sentinel

---------------------------------------------------------------------------
(* C8 - boxes that follow one another.                                     *)

\* each box lies strictly after the one before it on the compared axis
Increasing(bs) == \A k \in 2..Len(bs) : bs[k][1] > bs[k - 1][2]

\* C8: when every glyph box lies strictly after the previous one (its minimum
\* above the previous maximum), no glyph gets the role SUPERSCRIPT_START (1).
C8_IncreasingNeverSuperscript ==
    Increasing(boxes) => \A k \in 1..Len(isPowerStart) : isPowerStart[k] # 1

\* three glyphs, each strictly after the previous one, have got their roles
C8_Witness ==
    /\ Len(boxes) = 3
    /\ Increasing(boxes)
    /\ Len(isPowerStart) = 3

---------------------------------------------------------------------------
(* C9 - the first glyph.                                                   *)

\* C9: before the first glyph prevCenter and prevBottom are 0, and the first
\* glyph never gets the role SUPERSCRIPT_START (1), whatever its box.
C9_FirstNeverSuperscript ==
    /\ boxes = <<>> => (prevCenter2 = 0 /\ prevBottom = 0)
    /\ Len(isPowerStart) >= 1 => isPowerStart[1] # 1

\* the first glyph got its role, and a second glyph that lies before it got
\* the role 1
C9_Witness ==
    /\ boxes = <<<<2, 3>>, <<0, 0>>>>
    /\ isPowerStart = <<-1, 1>>

---------------------------------------------------------------------------
(* C10 - the erasure of a component.                                       *)

\* the pixels of an image
PixelsOf(img) == (0..(Shape0(img) - 1)) \X (0..(Shape1(img) - 1))

\* two pixels that touch by a side or a corner
Adjacent(p, q) ==
    /\ p # q
    /\ p[1] - q[1] \in {-1, 0, 1}
    /\ p[2] - q[2] \in {-1, 0, 1}

\* the ink pixels of img reached from the set S over adjacent ink pixels
RECURSIVE Grow(_, _)
Grow(img, S) ==
    CHOOSE R \in
        {IF T = S THEN S ELSE Grow(img, T) :
         T \in {S \cup {q \in PixelsOf(img) :
                          IsInk(img, q[1], q[2]) /\ \E p \in S : Adjacent(p, q)}}} :
        TRUE

\* the 8-connected ink component of the pixel p of img (empty when p is no ink)
Component(img, p) ==
    IF IsInk(img, p[1], p[2]) THEN Grow(img, {p}) ELSE {}

\* C10: when dfs(a,b) has returned for an ink start pixel, every pixel of the
\* 8-connected ink component of (a,b) is 255 in the raster, and a later call
\* started at any pixel of that component leaves the raster and the output
\* buffer as they were.
C10_ComponentErased ==
    pc = "idle" =>
        \A k \in 1..Len(dfsCalls) :
            LET c    == dfsCalls[k]
                comp == Component(c.grayIn, c.start)
            IN  /\ \A p \in comp : Pixel(c.grayOut, p[1], p[2]) = 255
                /\ \A p \in comp : Pixel(gray_image, p[1], p[2]) = 255
                /\ \A n \in (k + 1)..Len(dfsCalls) :
                      dfsCalls[n].start \in comp =>
                          /\ dfsCalls[n].grayOut = dfsCalls[n].grayIn
                          /\ dfsCalls[n].outOut = dfsCalls[n].outIn

\* a first call erased a component of two pixels that touch by a corner, and
\* a second call started at the other pixel of the component has returned
C10_Witness ==
    /\ Len(dfsCalls) = 2
    /\ dfsCalls[1].start = <<0, 0>>
    /\ Component(dfsCalls[1].grayIn, <<0, 0>>) = {<<0, 0>>, <<1, 1>>}
    /\ dfsCalls[2].start = <<1, 1>>
    /\ dfsCalls[2].grayOut = dfsCalls[2].grayIn

---------------------------------------------------------------------------
(* Vocabulary of the properties of the scan.                               *)

\* the ink pixels of an image
InkPixels(img) == {p \in PixelsOf(img) : IsInk(img, p[1], p[2])}

\* the 8-connected ink components of an image
Components(img) == {Component(img, p) : p \in InkPixels(img)}

\* the rows (first index) and the columns (second index) of a set of pixels
RowsOf(S) == {p[1] : p \in S}

ColsOf(S) == {p[2] : p \in S}

\* the dfs calls (indices of extracted) made during the column pass that
\* wrote glyph k
CallsOf(k) ==
    ((IF k = 1 THEN 0 ELSE glyphs[k - 1].upto) + 1)..glyphs[k].upto

---------------------------------------------------------------------------
(* C11 - the cells the scan reads.                                         *)

\* C11: the scan loop only reads raster cells with 0 <= row < height and
\* 0 <= column < width, also right after a column jump, and never fails.
C11_ScanInBounds ==
    /\ \A c \in cellReads : InRaster(scanIn, c[1], c[2])
    /\ raised = "none"

---------------------------------------------------------------------------
(* C12 - the ink left by the scan.                                         *)

\* C12: when the scan has ended no ink pixel (value <= 123) remains anywhere
\* in the raster.
C12_NoInkLeft ==
    pc = "scanned" => InkPixels(gray_image) = {}

---------------------------------------------------------------------------
(* C13 - glyphs and components.                                            *)

\* C13 as stated: after a full scan the number of glyphs equals the number of
\* 8-connected ink components, and each glyph holds exactly one component.
C13_Original ==
    pc = "scanned" =>
        /\ Len(glyphs) = Cardinality(Components(scanIn))
        /\ \A k \in 1..Len(glyphs) : Cardinality(CallsOf(k)) = 1

\* C13 as amended: one glyph (one layout role) is written per column pass in
\* which dfs extracted at least one component; its crop box is accumulated
\* over the components of that pass, every extracted component is a
\* different component of the raster and, once the scan has ended, belongs to
\* exactly one glyph; the glyphs are at most as many as the components
\* extracted.  (glyphs and extracted only grow, so the scan is looked at when it stopped.)
C13_Amended ==
    pc # "scanning" =>
        /\ Len(isPowerStart) = Len(glyphs)
        /\ \A k \in 1..Len(glyphs) :
              /\ CallsOf(k) # {}
              /\ glyphs[k].rows =
                    <<SetMin({extracted[n].rows[1] : n \in CallsOf(k)}),
                      SetMax({extracted[n].rows[2] : n \in CallsOf(k)})>>
              /\ glyphs[k].cols =
                    <<SetMin({extracted[n].cols[1] : n \in CallsOf(k)}),
                      SetMax({extracted[n].cols[2] : n \in CallsOf(k)})>>
        /\ \A comps \in {[n \in 1..Len(extracted) |->
                               Component(scanIn, extracted[n].start)]} :
              /\ \A n \in 1..Len(extracted) :
                    /\ comps[n] # {}
                    /\ \A m \in 1..(n - 1) : extracted[n].start \notin comps[m]
              /\ Len(glyphs) <= Len(extracted)
              /\ Len(extracted) <= Cardinality({comps[n] : n \in 1..Len(extracted)})
        /\ pc = "scanned" =>
              IF Len(glyphs) = 0 THEN Len(extracted) = 0
              ELSE glyphs[Len(glyphs)].upto = Len(extracted)

\* a scan has ended with two glyphs, the first of them made of two components
C13_Witness ==
    /\ pc = "scanned"
    /\ Len(glyphs) = 2
    /\ glyphs[1].upto = 2
    /\ Cardinality(Components(scanIn)) = 3

---------------------------------------------------------------------------
(* C14 - the shape of the glyph images.                                    *)

\* C14: every glyph image written is square, its width equals its height.
C14_GlyphsSquare ==
    \A k \in 1..Len(glyphs) :
        LET img == glyphs[k].image
        IN  Len(img) = (IF Len(img) = 0 THEN 0 ELSE Len(img[1]))

---------------------------------------------------------------------------
(* C16 - the value dfs returns.                                            *)

\* C16 as stated: the value returned by dfs is row_max - row_min over the
\* extracted component, rows being the first raster index.
C16_Original ==
    \A n \in 1..Len(extracted) :
        LET comp == Component(scanIn, extracted[n].start)
        IN  extracted[n].ret = SetMax(RowsOf(comp)) - SetMin(RowsOf(comp))

\* C16 as amended: the value returned by dfs is ymax - ymin, the extent on
\* the column axis (the second raster index) of the recorded box, which spans
\* the columns of the extracted component and of its neighbours in the raster.
\* (extracted only grows, so the scan is looked at when it stopped.)
C16_Amended ==
    pc # "scanning" =>
        \A n \in 1..Len(extracted) :
            \A comp \in {Component(scanIn, extracted[n].start)} :
                extracted[n].ret =
                    Min(Shape1(scanIn) - 1, SetMax(ColsOf(comp)) + 1)
                    - Max(0, SetMin(ColsOf(comp)) - 1)

\* dfs has extracted a vertical bar of three pixels in the first column and
\* returned 1
C16_Witness ==
    /\ pc = "scanned"
    /\ Len(extracted) >= 1
    /\ extracted[1].start = <<0, 0>>
    /\ Component(scanIn, <<0, 0>>) = {<<0, 0>>, <<1, 0>>, <<2, 0>>}
    /\ extracted[1].ret = 1

---------------------------------------------------------------------------
(* C17 - the axis of the layout roles.                                     *)

\* C17: the role is computed on row coordinates: a glyph is tagged 1 exactly
\* when the row_max of its box is less than the previous glyph's row centre
\* (row_min + row_max)/2, and after each glyph prev_center and prev_bottom are
\* the row centre and the row_max of that glyph.
C17_RolesOnRows ==
    /\ \A k \in 1..Len(glyphs) :
          LET prev2 == IF k = 1 THEN 0
                       ELSE glyphs[k - 1].rows[1] + glyphs[k - 1].rows[2]
          IN  (glyphs[k].role = 1) <=> (2 * glyphs[k].rows[2] < prev2)
    /\ Len(glyphs) >= 1 =>
          /\ prevCenter2 = glyphs[Len(glyphs)].rows[1] + glyphs[Len(glyphs)].rows[2]
          /\ prevBottom = glyphs[Len(glyphs)].rows[2]

---------------------------------------------------------------------------
(* C15 - the box dfs records.                                              *)

\* C15: after dfs(a,b) on an ink start pixel, xmin/xmax are the minimum and
\* maximum row and ymin/ymax the minimum and maximum column over the ink
\* pixels of the extracted component, and no more.
C15_BoxOfComponent ==
    (/\ pc = "idle"
     /\ Len(dfsCalls) >= 1
     /\ Component(dfsCalls[Len(dfsCalls)].grayIn,
                  dfsCalls[Len(dfsCalls)].start) # {}) =>
        LET c    == dfsCalls[Len(dfsCalls)]
            comp == Component(c.grayIn, c.start)
        IN  /\ xmin = SetMin(RowsOf(comp)) /\ xmax = SetMax(RowsOf(comp))
            /\ ymin = SetMin(ColsOf(comp)) /\ ymax = SetMax(ColsOf(comp))

---------------------------------------------------------------------------
(* C18 - the binarization.                                                 *)

\* the intensities of an image
Intensities(img) ==
    {img[r][c] : r \in 1..Len(img), c \in 1..Len(img[1])}

\* C18 as stated, the threshold being the number 0.4*max + 0.6*min: a pixel
\* ends as 0 if its original intensity is strictly less than the threshold
\* and as 255 otherwise, max and min being taken over the whole image.
C18_Original ==
    pc = "binarized" =>
        \A r \in 1..Len(imIn), c \in 1..Len(imIn[1]) :
            im[r][c] =
                IF 10 * imIn[r][c] < 4 * SetMax(Intensities(imIn))
                                     + 6 * SetMin(Intensities(imIn))
                THEN 0 ELSE 255

\* C18 as amended: with max and min taken over the whole image, a pixel
\* strictly below the number 0.4*max + 0.6*min ends as 0 and a pixel strictly
\* above it as 255; a pixel exactly at it ends as 0 when the binary64 value
\* of 0.4*max + 0.6*min is greater than the number (max 6, min 1) and as 255
\* otherwise; after binarization every pixel is 0 or 255.
C18_Amended ==
    pc = "binarized" =>
        \A t \in {4 * SetMax(Intensities(imIn)) + 6 * SetMin(Intensities(imIn))} :
            \A r \in 1..Len(imIn), c \in 1..Len(imIn[1]) :
                /\ im[r][c] \in {0, 255}
                /\ 10 * imIn[r][c] < t => im[r][c] = 0
                /\ 10 * imIn[r][c] > t => im[r][c] = 255
                /\ 10 * imIn[r][c] = t =>
                      im[r][c] =
                          IF <<SetMax(Intensities(imIn)),
                               SetMin(Intensities(imIn))>> \in RoundsUp
                          THEN 0 ELSE 255

\* an image with max 6 and min 1 was binarized: its pixels of intensity 3, at
\* the threshold, ended as 0 with the pixel of intensity 1
C18_Witness ==
    /\ pc = "binarized"
    /\ imIn = <<<<6, 1>>, <<3, 3>>>>
    /\ im = <<<<255, 0>>, <<0, 0>>>>

---------------------------------------------------------------------------
(* C19 - the crop.                                                         *)

\* C19: for an input of H rows, crop_img(im, 0.40) returns rows
\* 0 .. int(0.4*H)-1 and all columns.
C19_TopFortyPercent ==
    pc = "cropped" =>
        im = [r \in 1..((4 * Len(imIn)) \div 10) |-> imIn[r]]

---------------------------------------------------------------------------
(* C20 - the parentheses of final_eq.                                      *)

\* the number of "(" less the number of ")" among the elements of s
RECURSIVE Balance(_)
Balance(s) ==
    IF Len(s) = 0 THEN 0
    ELSE Balance(DropLast(s))
         + (IF Last(s) = "(" THEN 1 ELSE IF Last(s) = ")" THEN -1 ELSE 0)

\* no prefix of s has more ")" than "("
PrefixClosed(s) == \A k \in 0..Len(s) : Balance(SubSeq(s, 1, k)) >= 0

\* C20 as stated: for every token sequence, at every step of the loop
\* final_eq never has more ')' than '(' in a prefix, and the finished string
\* has balanced parentheses.
C20_Original ==
    /\ PrefixClosed(final_eq)
    /\ Finished => Balance(final_eq) = 0

\* C20 as amended: for every token sequence whose own '(' and ')' tokens are
\* balanced (no prefix of the sequence has more ')' than '(' tokens, and the
\* sequence has as many of each), at every step of the loop final_eq never has
\* more ')' than '(' in a prefix, and the finished string has balanced
\* parentheses.
C20_Amended ==
    (PrefixClosed(segLabels) /\ Balance(segLabels) = 0) =>
        /\ PrefixClosed(final_eq)
        /\ Finished => Balance(final_eq) = 0

\* the loop has finished on the tokens ( x ) and on nothing else
C20_Witness ==
    /\ Finished
    /\ segLabels = <<"(", "x", ")">>
    /\ final_eq = <<"(", "(", "(", "x", ")", ")", ")">>

---------------------------------------------------------------------------
(* C21 - what a run writes to standard output.                             *)

\* C21: solveIt is called first, the result line {equation, solution} is the
\* first thing written, and the flush follows it directly: when the run has
\* ended, standard output holds the result line and the flush and nothing
\* between them.
C21_ResultThenFlush ==
    /\ stdout # <<>> =>
          /\ solvesetResult.kind # "none"
          /\ stdout[1] = <<"print", "result", final_eq, solution>>
    /\ \A k \in 1..Len(stdout) :
          stdout[k] = <<"flush">> =>
              (k >= 2 /\ stdout[k - 1] = <<"print", "result", final_eq, solution>>)
    /\ pc = "done" =>
          stdout = <<<<"print", "result", final_eq, solution>>, <<"flush">>>>

---------------------------------------------------------------------------
(* C23 - the implicit '*' after a ')'.                                     *)

\* the ')' tokens emitted by the structural branch that are not the last
\* element and whose following token is no ')', '+' or '-'
OpenEndedClosers ==
    {k \in DOMAIN emitted :
        /\ emitted[k].by = "struct"
        /\ At(predicted_list, k) = ")"
        /\ k < Len(predicted_list) - 1
        /\ At(predicted_list, k + 1) \notin {")", "+", "-"}}

\* C23 as stated: such a ')' is followed in final_eq by exactly one '*',
\* whatever the following token is.
C23_Original ==
    \A k \in OpenEndedClosers :
        LET p == emitted[k].pos
        IN  /\ Len(final_eq) >= p + 1
            /\ final_eq[p + 1] = "*"
            /\ Len(final_eq) >= p + 2 => final_eq[p + 2] # "*"

\* C23 as amended: such a ')' is followed by exactly one '*' when the
\* following token is '(', a constant or a symbol, and by exactly two, "**",
\* when the following token is a digit.
C23_Amended ==
    \A k \in OpenEndedClosers :
        LET p == emitted[k].pos
        IN  /\ Len(final_eq) >= p + 1
            /\ final_eq[p + 1] = "*"
            /\ IF IsDigit(At(predicted_list, k + 1))
               THEN /\ Len(final_eq) >= p + 2
                    /\ final_eq[p + 2] = "*"
                    /\ Len(final_eq) >= p + 3 => final_eq[p + 3] # "*"
               ELSE Len(final_eq) >= p + 2 => final_eq[p + 2] # "*"

\* the loop has ended on x ) 2: the ')' token, followed by a digit, got "**"
C23_Witness ==
    /\ Finished
    /\ segLabels = <<"x", ")", "2">>
    /\ 2 \in OpenEndedClosers
    /\ final_eq = <<"(", "(", "x", ")", ")", "*", "*", "2", ")">>

---------------------------------------------------------------------------
(* C24 - the exponent of a symbol.                                         *)

\* the last index of the exponent run that starts at the token of index k1:
\* the tokens after k1 belong to it as long as they are digits with role 0
RunEnd(pl, ps2, k1) ==
    CHOOSE q \in k1..(Len(pl) - 1) :
        /\ \A t \in (k1 + 1)..q : IsDigit(At(pl, t)) /\ At(ps2, t) = 0
        /\ q = Len(pl) - 1 \/ ~(IsDigit(At(pl, q + 1)) /\ At(ps2, q + 1) = 0)

\* C24: for a general symbol s whose next token has the role 1, final_eq
\* gains "(s**", then a run of digits only (the next token and the digits
\* with role 0 that follow it), then ")*" (whose '*' a structural token that
\* follows may strip); the token after the run is the next one processed: no
\* token is skipped and none is processed twice.
C24_ExponentRun ==
    (pc = "loop" /\ raised = "none") =>
        /\ DOMAIN emitted = 1..(i - 1)
        /\ \A k \in DOMAIN emitted :
              (emitted[k].by = "symbol" /\ StartsPower(isPowerStart2, k + 1)) =>
                  LET q   == RunEnd(predicted_list, isPowerStart2, k + 1)
                      s   == Chars(At(predicted_list, k))
                      p   == emitted[k].pos
                      run == [t \in 1..(q - k) |-> At(predicted_list, k + t)]
                      to  == p + Len(s) + 2 + (q - k)
                  IN  /\ \A t \in (k + 1)..q :
                            /\ IsDigit(At(predicted_list, t))
                            /\ t \in DOMAIN emitted
                            /\ emitted[t].by = "power"
                      /\ to <= Len(final_eq)
                      /\ SubSeq(final_eq, p - 1, to)
                            = <<"(">> \o s \o <<"*", "*">> \o run \o <<")">>
                      /\ i = q + 1 => (Len(final_eq) = to + 1 /\ Last(final_eq) = "*")
                      /\ (q + 1) \in DOMAIN emitted => emitted[q + 1].by # "power"

---------------------------------------------------------------------------
(* C25 - the repair step.                                                  *)

\* C25: a structural token is never emitted onto a trailing implicit '*'
\* (for '(' the '*' of line 177 is the one the code puts back); the finished
\* expression never ends in '*', and no ')', '+' or '-' stands directly
\* after a '*'.
C25_NoStarBeforeCloser ==
    /\ \A k \in DOMAIN emitted :
          (emitted[k].by = "struct"
             /\ At(predicted_list, k) \in {")", "+", "-"}
             /\ emitted[k].pos > 1)
              => final_eq[emitted[k].pos - 1] # "*"
    /\ Finished => Last(final_eq) # "*"
    /\ \A k \in 2..Len(final_eq) :
          final_eq[k] \in {")", "+", "-"} => final_eq[k - 1] # "*"

---------------------------------------------------------------------------
(* C26 - dfs terminates.                                                   *)

\* C26: every dfs call returns (the stack empties), from every start pixel
\* of every raster, and a pixel that has been erased (set to 255) is never
\* ink again, so that each ink pixel is treated as ink on pop at most once.
C26_DfsTerminates ==
    /\ (pc = "dfs") ~> (pc = "idle")
    /\ [][\A p \in PixelsOf(gray_image) :
              Pixel(gray_image, p[1], p[2]) = 255
                  => Pixel(gray_image', p[1], p[2]) = 255]_vars

\* a dfs call on a raster that is all ink, a raster on which every pixel is
\* pushed several times, has returned
C26_Witness ==
    /\ pc = "idle"
    /\ Len(dfsCalls) = 1
    /\ InkPixels(dfsCalls[1].grayIn) = PixelsOf(gray_image)
    /\ InkPixels(gray_image) = {}

---------------------------------------------------------------------------
(* C27 - what dfs changes.                                                 *)

\* the scan is at an ink cell: its next step is the call dfs(i, j)
AtInkCell ==
    /\ pc = "scanning"
    /\ i < Shape0(gray_image)
    /\ InRaster(gray_image, i, j)
    /\ IsInk(gray_image, i, j)

\* C27: the call dfs(i, j) changes only the pixels of the 8-connected ink
\* component of (i, j): every raster pixel outside the component keeps its
\* value, and the output buffer gets 0 at the component's pixels and is
\* otherwise unchanged.
C27_DfsFrame ==
    [][AtInkCell =>
          \A comp \in {Component(gray_image, <<i, j>>)} :
              \A p \in PixelsOf(gray_image) :
                  IF p \in comp
                  THEN /\ Pixel(gray_image', p[1], p[2]) = 255
                       /\ Pixel(output_image', p[1], p[2]) = 0
                  ELSE /\ Pixel(gray_image', p[1], p[2])
                              = Pixel(gray_image, p[1], p[2])
                       /\ Pixel(output_image', p[1], p[2])
                              = Pixel(output_image, p[1], p[2])]_vars

\* dfs has extracted one component of a raster that has two, and the ink of
\* the other component is still in the raster
C27_Witness ==
    /\ pc = "scanning"
    /\ Len(extracted) = 1
    /\ Cardinality(Components(scanIn)) = 2
    /\ InkPixels(gray_image) # {}
    /\ InkPixels(gray_image)
          = InkPixels(scanIn) \ Component(scanIn, extracted[1].start)

---------------------------------------------------------------------------
(* C28 - the order of the glyphs.                                          *)

\* C28: when the scan has completed, the accumulated column minimum
\* (yminCrop) of each glyph is greater than or equal to that of the glyph
\* emitted before it.
C28_LeftToRight ==
    pc = "scanned" =>
        \A k \in 2..Len(boxes) : boxes[k][1] >= boxes[k - 1][1]

\* a scan has completed with two glyphs, the first starting right of column
\* 0 and the second right of the first, after a column jump
C28_Witness ==
    /\ pc = "scanned"
    /\ Len(boxes) = 2
    /\ boxes[1][1] >= 1
    /\ boxes[2][1] > boxes[1][1]
    /\ MaxJump(extracted[1].ret) >= 1

---------------------------------------------------------------------------
(* C29 - solveSystem.                                                      *)

\* C29: when the solve call raises on the parsed equations, no exception
\* leaves solveSystem, and what it returns is a string.
C29_SolveSystemTotal ==
    (solveSystem # <<>> /\ solveSystem.solve.kind = "raise") =>
        /\ raised = "none"
        /\ pc # "raised"
        /\ pc = "returned" => solveSystem.returned \notin {Unbound, "none"}

---------------------------------------------------------------------------
(* C22 - two runs in one process.                                          *)

\* C22: two runs over independent rasters whose steps are interleaved in one
\* process share no mutable state: when a run has ended, it has ended as it
\* ends alone, with the same glyph boxes and the same roles (the expression
\* is a function of the glyph images and the roles).
C22_RunsIndependent ==
    \A r \in DOMAIN runs :
        runs[r].pc \in {"scanned", "raised"} =>
            \A alone \in {ScanAlone(runs[r].im)} :
                /\ runs[r].pc = alone.pc
                /\ runs[r].isPowerStart = alone.isPowerStart
                /\ Len(runs[r].glyphs) = Len(alone.glyphs)
                /\ \A k \in 1..Len(alone.glyphs) :
                      /\ runs[r].glyphs[k].rows = alone.glyphs[k].rows
                      /\ runs[r].glyphs[k].cols = alone.glyphs[k].cols

---------------------------------------------------------------------------
(* C30 - uniform images.                                                   *)

\* C30: the binarized raster contains at least one ink pixel if and only if
\* the grayscale image is not uniform (its greatest intensity exceeds its
\* least); a uniform image of any intensity, all-black included, yields no
\* glyphs and the expression "()".
C30_InkIffNotUniform ==
    pc = "binarized" =>
        /\ InkPixels(im) # {}
             <=> SetMax(Intensities(imIn)) > SetMin(Intensities(imIn))
        /\ SetMax(Intensities(imIn)) = SetMin(Intensities(imIn)) =>
             \A alone \in {ScanAlone(im)} :
                 /\ alone.pc = "scanned"
                 /\ alone.glyphs = <<>>
                 /\ Expression(<<>>, alone.isPowerStart) = <<"(", ")">>

\* C30's case: an all-black image has been binarized and holds no ink
C30_Witness ==
    /\ pc = "binarized"
    /\ imIn = Uniform(0)
    /\ InkPixels(im) = {}

===========================================================================
